---- MODULE Spec2Model ----
(***************************************************************************)
(* Matchmaking pipeline orchestrator of proposalforge:                     *)
(*   app/services/workflow_service.py  (WorkflowService: lock, checkpoint  *)
(*       codec, start / cancel / resume, _execute_matchmaking)             *)
(*   app/services/agent_graph.py       (graph nodes, should_revise)        *)
(*   app/services/cache_service.py     (CacheService: the Redis client)    *)
(*                                                                         *)
(* Spec       one worker process, one Run, every answer of the judge;      *)
(*            the task steps through the graph node by node.               *)
(* SpecFleet  several worker processes sharing one Redis store and one     *)
(*            database, several Runs.                                      *)
(* SpecRetry  one worker, one Run, crash/boot cycles past the retry cap.   *)
(* SpecBatches one worker, one Run with two match batches, no crash.       *)
(* SpecCodec  _serialize_state / _deserialize_state on bounded inputs.     *)
(* SpecLog    app/api/agents.py stream_run_logs reading one Run's event    *)
(*            list while _emit_log appends to it.                          *)
(* SpecMerge  the merges of critique_node and summarize_node on bounded    *)
(*            raw matches and judge answers.                               *)
(* SpecDamage one worker, one Run whose stored checkpoint may be damaged   *)
(*            between a crash and the resume at boot.                      *)
(* SpecBoots  several workers booting after crashes, no key expiry.        *)
(* SpecScores match_node's normalisation of the judge's match entries.     *)
(* SpecPrefilter  the fallback pairing of pre_filter_node on bounded       *)
(*            profile lists and top_n.                                     *)
(* SpecOutage one worker, several Runs, the Redis server not answering;    *)
(*            the event loop runs every task that can take a step.         *)
(*                                                                         *)
(* Time: Redis TTLs (600 s) are not counted.  A key may expire only while  *)
(* no supervisor call is in progress and every live task is waiting for a  *)
(* judge (LLM) call, which has no timeout (agent_service.build_llm_client);*)
(* the store and database round-trips of one call are taken to be short    *)
(* against 600 s.                                                          *)
(***************************************************************************)
EXTENDS Integers, Sequences, FiniteSets, TLC

\* ---------------------------------------------------------------- bounds
NumProcs == 2
MaxRuns == 2
MaxCrashes == 1
MaxExpiries == 1
MaxCancels == 2
MaxFaults == 2
SoloCrashes == 2
SoloExpiries == 1
SoloCancels == 1
MaxRetryCrashes == 12
NPairs == 10
MaxLen == 2
MaxEvents == 4
MaxMatches == 2
MaxReviews == 2
MaxSummaries == 2
MaxErrorEvents == 1
MaxEndEvents == 2
MaxLateEvents == 1
ManyResearchers == 40
ManyOpportunities == 30

\* ------------------------------------------------------ program constants
MAX_AUTO_RETRIES == 10
COMPRESS_THRESHOLD == 100000
DEFAULT_MAX_ITERATIONS == 2
MATCH_BATCH == 10
CRITIQUE_BATCH == 15
SUMMARIZE_BATCH == 20
SUMMARY_THRESHOLD == 25
FALLBACK_CAP == 1000
DEFAULT_TOP_N == 20

Procs == 1..NumProcs
RunIds == 1..MaxRuns
NULL == <<>>
NoNode == "None"

\* ====================================================== checkpoint codec
\* A serialized text is a sequence of tokens [k, v]; TokLen is the number of
\* characters json.dumps writes for the token (separators are ", " and ": ").
Tok(k, v) == [k |-> k, v |-> v]
P(c) == Tok("p", c)

NameLen(s) ==
  CASE s = "" -> 0
    [] s = "starting" -> 8
    [] s = "planning_complete" -> 17
    [] s = "discovery_complete" -> 18
    [] s = "pre_filter_complete" -> 19
    [] s = "match_complete" -> 14
    [] s = "critique_complete" -> 17
    [] s = "summarize_complete" -> 18
    [] s = "persist_failed" -> 14
    [] s = "completed" -> 9
    [] s = "candidate_pairs" -> 15
    [] s = "raw_matches" -> 11
    [] s = "critiqued_matches" -> 17
    [] s = "final_matches" -> 13
    [] s = "iteration" -> 9
    [] s = "max_iterations" -> 14
    [] s = "errors" -> 6
    [] s = "status" -> 6
    [] s = "resume_after" -> 12
    [] s = "id" -> 2
    [] s = "flagged" -> 7
    [] OTHER -> 10

Digits(n) == IF n < 10 THEN 1 ELSE IF n < 100 THEN 2 ELSE 3

TokLen(t) ==
  CASE t.k = "p" -> IF t.v \in {",", ":"} THEN 2 ELSE 1
    [] t.k = "int" -> Digits(t.v)
    [] t.k = "bool" -> IF t.v THEN 4 ELSE 5
    [] t.k = "name" -> NameLen(t.v) + 2
    [] t.k = "rle" -> t.v + 2
    [] t.k = "lit" -> 5
    [] OTHER -> 1

\* len(raw): the sum of the token lengths; span[<<i, j>>] is the length of
\* tokens i+1 .. j (halving keeps the recursion shallow)
TextLen(text) ==
  LET span[r \in (0..Len(text)) \X (0..Len(text))] ==
        IF r[2] <= r[1] THEN 0
        ELSE IF r[2] = r[1] + 1 THEN TokLen(text[r[2]])
        ELSE LET mid == (r[1] + r[2]) \div 2
             IN span[<<r[1], mid>>] + span[<<mid, r[2]>>]
  IN span[<<0, Len(text)>>]

DumpsInt(n) == <<Tok("int", n)>>
DumpsErr(n) == <<Tok("rle", n)>>
DumpsCrit(m) ==
  <<P("{"), Tok("name", "id"), P(":"), Tok("int", m.id), P(","),
    Tok("name", "flagged"), P(":"), Tok("bool", m.flagged), P("}")>>

\* one list element, by the kind of list it is in
DumpsElem(kind, x) ==
  CASE kind = "int" -> DumpsInt(x)
    [] kind = "err" -> DumpsErr(x)
    [] kind = "crit" -> DumpsCrit(x)

\* json.dumps of one list: "[" e1 ", " e2 ... "]"
RECURSIVE DumpsElems(_, _)
DumpsElems(s, kind) ==
  IF s = <<>> THEN <<>>
  ELSE IF Len(s) = 1 THEN DumpsElem(kind, s[1])
  ELSE DumpsElem(kind, s[1]) \o <<P(",")>> \o DumpsElems(Tail(s), kind)

DumpsList(s, kind) == <<P("[")>> \o DumpsElems(s, kind) \o <<P("]")>>

Field(name, text) == <<Tok("name", name), P(":")>> \o text

\* json.dumps(state, default=str): the fields in the dict's insertion order.
JsonDumps(state) ==
  <<P("{")>>
  \o Field("candidate_pairs", DumpsList(state.candidate_pairs, "int")) \o <<P(",")>>
  \o Field("raw_matches", DumpsList(state.raw_matches, "int")) \o <<P(",")>>
  \o Field("critiqued_matches", DumpsList(state.critiqued_matches, "crit")) \o <<P(",")>>
  \o Field("final_matches", DumpsList(state.final_matches, "int")) \o <<P(",")>>
  \o Field("iteration", DumpsInt(state.iteration)) \o <<P(",")>>
  \o Field("max_iterations", DumpsInt(state.max_iterations)) \o <<P(",")>>
  \o Field("errors", DumpsList(state.errors, "err")) \o <<P(",")>>
  \o Field("status", <<Tok("name", state.status)>>) \o <<P(",")>>
  \o Field("resume_after", <<Tok("name", state.resume_after)>>)
  \o <<P("}")>>

\* ---- json.loads: a recursive-descent reader; ok = FALSE is JSONDecodeError.
Fail == [ok |-> FALSE, val |-> <<>>, rest |-> <<>>]
Got(v, rest) == [ok |-> TRUE, val |-> v, rest |-> rest]

IsP(text, c) == text # <<>> /\ Head(text).k = "p" /\ Head(text).v = c
IsK(text, k) == text # <<>> /\ Head(text).k = k

ReadInt(text) == IF IsK(text, "int") THEN Got(Head(text).v, Tail(text)) ELSE Fail
ReadErr(text) == IF IsK(text, "rle") THEN Got(Head(text).v, Tail(text)) ELSE Fail
ReadCrit(text) ==
  IF /\ Len(text) >= 9
     /\ IsP(text, "{")
     /\ text[2] = Tok("name", "id") /\ text[3] = P(":") /\ text[4].k = "int"
     /\ text[5] = P(",")
     /\ text[6] = Tok("name", "flagged") /\ text[7] = P(":") /\ text[8].k = "bool"
     /\ text[9] = P("}")
  THEN Got([id |-> text[4].v, flagged |-> text[8].v], SubSeq(text, 10, Len(text)))
  ELSE Fail

ReadName(text) == IF IsK(text, "name") THEN Got(Head(text).v, Tail(text)) ELSE Fail

ReadElem(kind, text) ==
  CASE kind = "int" -> ReadInt(text)
    [] kind = "err" -> ReadErr(text)
    [] kind = "crit" -> ReadCrit(text)

\* after one element: ", " and the next one, or "]"
RECURSIVE ReadElems(_, _, _), MoreElems(_, _, _)
MoreElems(e, kind, acc) ==
  IF ~e.ok THEN Fail
  ELSE IF IsP(e.rest, ",") THEN ReadElems(Tail(e.rest), kind, Append(acc, e.val))
  ELSE IF IsP(e.rest, "]") THEN Got(Append(acc, e.val), Tail(e.rest))
  ELSE Fail

ReadElems(text, kind, acc) == MoreElems(ReadElem(kind, text), kind, acc)

ReadList(text, kind) ==
  IF ~IsP(text, "[") THEN Fail
  ELSE IF IsP(Tail(text), "]") THEN Got(<<>>, Tail(Tail(text)))
  ELSE ReadElems(Tail(text), kind, <<>>)

\* one value of a field, by the kind of the field
ReadValue(kind, text) ==
  CASE kind = "n" -> ReadInt(text)
    [] kind = "s" -> ReadName(text)
    [] OTHER -> ReadList(text, kind)

\* the keys of MatchmakingState that the model carries, in insertion order
FieldTable ==
  << <<"candidate_pairs", "int">>, <<"raw_matches", "int">>,
     <<"critiqued_matches", "crit">>, <<"final_matches", "int">>,
     <<"iteration", "n">>, <<"max_iterations", "n">>, <<"errors", "err">>,
     <<"status", "s">>, <<"resume_after", "s">> >>

EmptyState ==
  [candidate_pairs |-> <<>>, raw_matches |-> <<>>, critiqued_matches |-> <<>>,
   final_matches |-> <<>>, iteration |-> 0, max_iterations |-> 0,
   errors |-> <<>>, status |-> "", resume_after |-> ""]

\* a dict read through state.get(key, default): what the graph sees for a
\* key the dict does not hold
StateDefaults == [EmptyState EXCEPT !.max_iterations = DEFAULT_MAX_ITERATIONS]

Undecodable == [ok |-> FALSE, state |-> EmptyState]

\* the members of a JSON object, "name": <value> separated by "," up to "}";
\* any object holding some of the keys of FieldTable in their order is read,
\* the keys it lacks stay absent
RECURSIVE ReadFields(_, _, _), MoreFields(_, _, _, _)
MoreFields(v, name, i, acc) ==
  IF ~v.ok THEN Fail
  ELSE IF IsP(v.rest, "}") THEN Got([acc EXCEPT ![name] = v.val], Tail(v.rest))
  ELSE IF IsP(v.rest, ",") THEN ReadFields(Tail(v.rest), i + 1, [acc EXCEPT ![name] = v.val])
  ELSE Fail

ReadFields(text, i, acc) ==
  IF i > Len(FieldTable) THEN Fail
  ELSE IF Len(text) >= 2 /\ text[1] = Tok("name", FieldTable[i][1]) /\ text[2] = P(":")
  THEN MoreFields(ReadValue(FieldTable[i][2], Tail(Tail(text))), FieldTable[i][1], i, acc)
  ELSE ReadFields(text, i + 1, acc)

\* the dict json.loads returns, from the values read
Assemble(r) ==
  IF r.ok /\ r.rest = <<>> THEN [ok |-> TRUE, state |-> r.val] ELSE Undecodable

\* json.loads; anything but an object makes the caller's
\* resume_state["resume_after"] = ... raise, which it catches like a parse error
JsonLoads(text) ==
  IF IsP(text, "{")
  THEN IF IsP(Tail(text), "}")
       THEN Assemble(Got(StateDefaults, Tail(Tail(text))))
       ELSE Assemble(ReadFields(Tail(text), 1, StateDefaults))
  ELSE Undecodable

\* zlib.compress + base64.b64encode are lossless: one blob token that holds
\* the raw text; b64decode / decompress of anything else raises.
Compress(raw) == <<Tok("b64", raw)>>
Decompress(data) ==
  IF Len(data) = 1 /\ data[1].k = "b64" THEN [ok |-> TRUE, raw |-> data[1].v]
  ELSE [ok |-> FALSE, raw |-> <<>>]

ZlibPrefix == <<Tok("lit", "zlib:")>>
StartsWithZlib(data) == data # <<>> /\ Head(data).k = "lit" /\ Head(data).v = "zlib:"

\* "zlib:" + b64(compress(raw)) when len(raw) > COMPRESS_THRESHOLD, else raw
\* (raw is one value, built once by json.dumps)
Pack(raw) ==
  CHOOSE data \in {IF TextLen(text) > COMPRESS_THRESHOLD
                   THEN ZlibPrefix \o Compress(text) ELSE text : text \in {raw}} : TRUE

_serialize_state(state) == Pack(JsonDumps(state))

\* json.loads of what b64decode + decompress gave
Unpack(c) == IF c.ok THEN JsonLoads(c.raw) ELSE Undecodable

_deserialize_state_plain(data) == JsonLoads(data)

_deserialize_state(data) ==
  IF StartsWithZlib(data) THEN Unpack(Decompress(Tail(data))) ELSE JsonLoads(data)


\* ============================================================ the fleet
VARIABLES
  lock,              \* Redis key pf:workflow_lock exists
  cancel_flag,       \* run ids whose key pf:workflow:<id>:cancel exists
  runs,              \* table workflow_runs, by id; status "absent" = no row
  alive,             \* worker process is up
  call,              \* the supervisor call each process is inside
  scan,              \* resume_interrupted_runs: the rows read, still to process
  tasks,             \* per process and run: the asyncio task of _execute_matchmaking
  cancel_requested,  \* per process: run ids mapped to True in _cancel_requested
  crashes,           \* number of process crashes so far
  expiries,          \* number of TTL expiries so far
  cancels,           \* number of cancel_run calls so far
  cancel_ok,         \* run ids for which cancel_run has returned True
  orphaned,          \* a process crashed between _acquire_lock and the Run insert
  cancel_refused,    \* run ids for which cancel_run has returned False
  matches,           \* the agent_matches table: the rows in insertion order
  cin, ctoken, cout, \* codec harness: input state, token, decoded result
  log,               \* the Redis list pf:workflow:<id>:log of one Run
  cursor,            \* stream_run_logs: the cursor into the list
  entries,           \* stream_run_logs: entries read by lrange, not yet yielded
  sent,              \* the events the stream has yielded to its client
  stream,            \* stream_run_logs: where the generator stands
  m_raw,             \* merge harness: state["raw_matches"]
  m_reviews,         \* critique_node: all_critiqued, the critic's parsed entries
  m_critiqued,       \* critique_node: raised, or the critiqued_matches returned
  m_summaries,       \* summarize_node: the summarizer's parsed entries
  m_final,           \* summarize_node: the final_matches returned
  m_pc,              \* merge harness: the node that has run last
  store_up,          \* the Redis server answers
  pf_in,             \* pre_filter_node: the profiles loaded and the plan's top_n
  pf_out,            \* pre_filter_node: the candidate_pairs returned
  pf_pc              \* pre_filter_node: called or returned

vars == <<lock, cancel_flag, runs, alive, call, scan, tasks, cancel_requested,
          crashes, expiries, cancels, cancel_ok, orphaned, cancel_refused, matches,
          cin, ctoken, cout, log, cursor, entries, sent, stream,
          m_raw, m_reviews, m_critiqued, m_summaries, m_final, m_pc,
          store_up, pf_in, pf_out, pf_pc>>
fleet == <<lock, cancel_flag, runs, alive, call, scan, tasks, cancel_requested,
           crashes, expiries, cancels, cancel_ok, orphaned, cancel_refused, matches,
           store_up>>
codec == <<cin, ctoken, cout>>
logs == <<log, cursor, entries, sent, stream>>
merge == <<m_raw, m_reviews, m_critiqued, m_summaries, m_final, m_pc>>
prefilter == <<pf_in, pf_out, pf_pc>>

Terminal == {"completed", "failed", "cancelled"}
Active == {"pending", "running"}

\* the Redis list pf:workflow:<id>:log of the Run, as far as its terminal
\* events go: error_events and end_events count its "error" and "workflow_end"
\* entries, late_events the entries that follow the first "workflow_end"
AbsentRun ==
  [status |-> "absent", checkpoint_state |-> NULL, last_completed_node |-> NoNode,
   retry_count |-> 0, iterations |-> -1, error_events |-> 0,
   end_events |-> 0, late_events |-> 0]

\* WorkflowRun(status="pending", ...): the column defaults
NewRun == [AbsentRun EXCEPT !.status = "pending"]

Idle == [op |-> "idle", run |-> 0]

\* initial_state of a fresh execution
FreshState ==
  [candidate_pairs |-> <<>>, raw_matches |-> <<>>, critiqued_matches |-> <<>>,
   final_matches |-> <<>>, iteration |-> 0,
   max_iterations |-> DEFAULT_MAX_ITERATIONS,
   errors |-> <<>>, status |-> "starting", resume_after |-> ""]

\* dropped: the batches of the node under way whose response _safe_json_parse
\* could not read (None); steps: the sequence numbers of the WorkflowStep rows
\* this execution has recorded, in the order of their commits, and
\* last_status the status of the latest of them; flagged_seen:
\* some critique pass of this execution returned a flagged match
NoTask ==
  [pc |-> "none", node |-> "", batch |-> 0, acc |-> <<>>, dropped |-> {},
   state |-> EmptyState, resumed |-> FALSE, fstatus |-> "",
   steps |-> <<>>, last_status |-> "", flagged_seen |-> FALSE]

\* asyncio.create_task(self._execute_matchmaking(run_id, ..., resume_state))
NewTask(resume_state, is_resume) ==
  [NoTask EXCEPT !.pc = "launched",
                 !.state = IF is_resume THEN resume_state ELSE FreshState,
                 !.resumed = is_resume]

Live(t) == t.pc \notin {"none", "dead"}
LiveTasks == {pr \in Procs \X RunIds : Live(tasks[pr[1]][pr[2]])}

\* ------------------------------------------------------------ the store
_acquire_lock_always == TRUE

\* SET key "1" NX EX 600: TRUE iff the key was absent; when the call raises,
\* "except Exception: pass" and "return True"
_acquire_lock == ~store_up \/ ~lock

\* cache_service.delete(WORKFLOW_LOCK_KEY): CacheService defines no delete, the
\* AttributeError is swallowed by "except Exception: pass": the key stays.
_release_lock(l) == l

\* r.expire(WORKFLOW_LOCK_KEY, 600): extends an existing key, creates none
_refresh_lock(l) == l

_is_cancelled_never(run_id) == FALSE

\* r.exists(f"pf:workflow:{run_id}:cancel"); False when the call raises
_is_cancelled(run_id) == store_up /\ run_id \in cancel_flag

Min(a, b) == IF a < b THEN a ELSE b

_emit_log_unguarded(run, type) ==
  [run EXCEPT
     !.error_events = IF type = "error" THEN Min(@ + 1, MaxErrorEvents) ELSE @,
     !.end_events = IF type = "workflow_end" THEN Min(@ + 1, MaxEndEvents) ELSE @,
     !.late_events = IF run.end_events > 0 THEN Min(@ + 1, MaxLateEvents) ELSE @]

\* _emit_log: r.rpush(list_key, payload); nothing when the store is down
_emit_log(run, type) ==
  IF ~store_up THEN run
  ELSE [run EXCEPT
          !.error_events = IF type = "error" THEN Min(@ + 1, MaxErrorEvents) ELSE @,
          !.end_events = IF type = "workflow_end" THEN Min(@ + 1, MaxEndEvents) ELSE @,
          !.late_events = IF run.end_events > 0 THEN Min(@ + 1, MaxLateEvents) ELSE @]

\* crashes, TTL expiries and cancel requests of the behaviour so far
Faults == crashes + expiries + cancels

\* A TTL can run out only while nothing short is in progress.
Quiet ==
  /\ \A p \in Procs : call[p].op = "idle"
  /\ \A pr \in LiveTasks : tasks[pr[1]][pr[2]].pc = "call"

LockExpire(b) ==
  /\ lock /\ Quiet /\ expiries < b.expiries /\ Faults < b.faults
  /\ lock' = FALSE
  /\ expiries' = expiries + 1
  /\ UNCHANGED <<cancel_flag, runs, alive, call, scan, tasks, cancel_requested,
                 crashes, cancels, cancel_ok, orphaned, cancel_refused, matches, codec, logs, merge,
                 prefilter, store_up>>

CancelExpire(r, b) ==
  /\ r \in cancel_flag /\ Quiet /\ expiries < b.expiries /\ Faults < b.faults
  /\ cancel_flag' = cancel_flag \ {r}
  /\ expiries' = expiries + 1
  /\ UNCHANGED <<lock, runs, alive, call, scan, tasks, cancel_requested,
                 crashes, cancels, cancel_ok, orphaned, cancel_refused, matches, codec, logs, merge,
                 prefilter, store_up>>

\* ------------------------------------------------------ start_matchmaking
StartAcquire(p, b) ==
  /\ alive[p] /\ call[p].op = "idle"
  /\ \E r \in 1..b.runs : runs[r].status = "absent"
  /\ IF _acquire_lock
     THEN /\ lock' = (store_up \/ lock)
          /\ call' = [call EXCEPT ![p] = [op |-> "start", run |-> 0]]
     ELSE \* raise RuntimeError("A workflow is already running")
          UNCHANGED <<lock, call>>
  /\ UNCHANGED <<cancel_flag, runs, alive, scan, tasks, cancel_requested,
                 crashes, expiries, cancels, cancel_ok, orphaned, cancel_refused, matches, codec, logs, merge,
                 prefilter, store_up>>

NextId == CHOOSE r \in RunIds : runs[r].status = "absent"
                                /\ \A q \in RunIds : q < r => runs[q].status # "absent"

StartCreate(p) ==
  /\ alive[p] /\ call[p].op = "start"
  /\ LET run_id == NextId IN
     /\ runs' = [runs EXCEPT ![run_id] = NewRun]
     /\ cancel_requested' = [cancel_requested EXCEPT ![p] = @ \ {run_id}]
     /\ tasks' = [tasks EXCEPT ![p][run_id] = NewTask(FreshState, FALSE)]
  /\ call' = [call EXCEPT ![p] = Idle]
  /\ UNCHANGED <<lock, cancel_flag, alive, scan, crashes, expiries, cancels,
                 cancel_ok, orphaned, cancel_refused, matches, codec, logs, merge,
                 prefilter, store_up>>


\* ---------------------------------------------------------- the graph
\* flagged_pct > 0.30 with flagged_pct = flagged_count / len(critiqued): for
\* list lengths below 10^15 the float comparison agrees with 10*f > 3*len.
FlaggedCount(critiqued) == Cardinality({i \in 1..Len(critiqued) : critiqued[i].flagged})

should_revise_atleast(state) ==
  IF state.critiqued_matches = <<>> \/ state.iteration >= state.max_iterations
  THEN "summarize"
  ELSE IF 10 * FlaggedCount(state.critiqued_matches) >= 3 * Len(state.critiqued_matches)
       THEN "match"
       ELSE "summarize"

should_revise(state) ==
  IF state.critiqued_matches = <<>> \/ state.iteration >= state.max_iterations
  THEN "summarize"
  ELSE IF 10 * FlaggedCount(state.critiqued_matches) > 3 * Len(state.critiqued_matches)
       THEN "match"
       ELSE "summarize"

\* set_entry_point / add_edge / add_conditional_edges
EntryPoint == "plan"

NextNode_unsummarized(node, state) ==
  CASE node = "plan" -> "discover"
    [] node = "discover" -> "pre_filter"
    [] node = "pre_filter" -> "match"
    [] node = "match" -> "critique"
    [] node = "critique" -> IF should_revise(state) = "match" THEN "match" ELSE "persist"
    [] node = "summarize" -> "persist"
    [] node = "persist" -> "END"

NextNode(node, state) ==
  CASE node = "plan" -> "discover"
    [] node = "discover" -> "pre_filter"
    [] node = "pre_filter" -> "match"
    [] node = "match" -> "critique"
    [] node = "critique" -> should_revise(state)
    [] node = "summarize" -> "persist"
    [] node = "persist" -> "END"

CheckpointKey_bare(node_name, iteration) == node_name

\* checkpoint_key in _execute_matchmaking
CheckpointKey(node_name, iteration) ==
  IF node_name \in {"match", "critique"}
  THEN node_name \o ":" \o ToString(iteration)
  ELSE node_name

NumBatches(n, size) == (n + size - 1) \div size
Batch(seq, size, b) == SubSeq(seq, (b - 1) * size + 1, Min(b * size, Len(seq)))

\* the list a node's batch loop runs over, and its batch size
LoopItems(node, state) ==
  CASE node = "match" -> state.candidate_pairs
    [] node = "critique" -> state.raw_matches
    [] node = "summarize" -> [i \in 1..Len(state.critiqued_matches) |->
                                state.critiqued_matches[i].id]
    [] OTHER -> <<0>>

BatchSize(node) ==
  CASE node = "match" -> MATCH_BATCH
    [] node = "critique" -> CRITIQUE_BATCH
    [] node = "summarize" -> SUMMARIZE_BATCH
    [] OTHER -> 1

Range(seq) == {seq[i] : i \in 1..Len(seq)}

\* what the node returns once its last judge call is back; acc holds what
\* the batches contributed (match: the matches parsed, critique: the ids the
\* critic flagged)
NodeOutput(node, state, acc) ==
  CASE node = "plan" -> [state EXCEPT !.status = "planning_complete"]
    [] node = "discover" -> [state EXCEPT !.status = "discovery_complete"]
    [] node = "match" ->
         [state EXCEPT !.raw_matches = acc,
                       !.iteration = state.iteration + 1,
                       !.status = "match_complete"]
    [] node = "critique" ->
         [state EXCEPT !.critiqued_matches =
                          [i \in 1..Len(state.raw_matches) |->
                             [id |-> state.raw_matches[i],
                              flagged |-> state.raw_matches[i] \in Range(acc)]],
                       !.status = "critique_complete"]
    [] node = "summarize" ->
         [state EXCEPT !.final_matches =
                          [i \in 1..Len(state.critiqued_matches) |->
                             state.critiqued_matches[i].id],
                       !.status = "summarize_complete"]

\* the sequence argument of _log_step / _invoke_agent: batch counts from 1
\* (i // batch_size + 1), iteration is the value match_node read on entry
Sequence(node, batch, iteration) ==
  CASE node = "plan" -> 1
    [] node = "discover" -> 2
    [] node = "pre_filter" -> 3
    [] node = "match" -> 4 + (batch - 1) + (iteration * 100)
    [] node = "critique" -> 50 + (batch - 1)
    [] node = "summarize" -> 70 + (batch - 1)
    [] node = "persist" -> 80

\* the critic flagged a match of the pass that has just returned
FlaggedNow(node, newstate) ==
  node = "critique" /\ FlaggedCount(newstate.critiqued_matches) > 0

\* _save_checkpoint: UPDATE workflow_runs SET last_completed_node, checkpoint_state
_save_checkpoint(run, node_name, state) ==
  [run EXCEPT !.last_completed_node = node_name,
              !.checkpoint_state = _serialize_state(state)]

\* _clear_checkpoint
_clear_checkpoint(run) ==
  [run EXCEPT !.checkpoint_state = NULL, !.last_completed_node = NoNode]

\* "finally": _release_lock, _running_tasks.pop, _cancel_requested.pop
Finally(p, r) ==
  /\ lock' = _release_lock(lock)
  /\ cancel_requested' = [cancel_requested EXCEPT ![p] = @ \ {r}]

\* The body of "async for event in compiled.astream": the node returned the
\* state newstate; update final_state, save the checkpoint, refresh the lock,
\* check the cancel flag, and let the graph pick the next node.
\* logged: the sequence numbers of the Steps the node recorded in this step.
AfterNode(p, r, node, newstate, unparsed, logged, status) ==
  /\ runs' = [runs EXCEPT ![r] =
                _save_checkpoint(_emit_log(@, "node_end"),
                                 CheckpointKey(node, newstate.iteration), newstate)]
  /\ lock' = _refresh_lock(lock)
  /\ tasks' = [tasks EXCEPT ![p][r] =
       IF _is_cancelled(r)
       THEN [@ EXCEPT !.pc = "unwind", !.state = newstate, !.batch = 0, !.acc = <<>>,
                      !.dropped = unparsed, !.steps = @ \o logged,
                           !.last_status = IF logged = <<>> THEN @ ELSE status,
                      !.flagged_seen = @ \/ FlaggedNow(node, newstate)]
       ELSE IF NextNode(node, newstate) = "END"
            THEN [@ EXCEPT !.pc = "final", !.node = "", !.state = newstate,
                           !.batch = 0, !.acc = <<>>, !.dropped = unparsed,
                           !.steps = @ \o logged,
                           !.last_status = IF logged = <<>> THEN @ ELSE status,
                           !.flagged_seen = @ \/ FlaggedNow(node, newstate)]
            ELSE [@ EXCEPT !.pc = "enter", !.node = NextNode(node, newstate),
                           !.state = newstate, !.batch = 0, !.acc = <<>>,
                           !.dropped = unparsed, !.steps = @ \o logged,
                           !.last_status = IF logged = <<>> THEN @ ELSE status,
                           !.flagged_seen = @ \/ FlaggedNow(node, newstate)]]


\* ------------------------------------------------ _execute_matchmaking
TaskRest == <<cancel_flag, alive, call, scan, crashes, expiries, cancels,
              cancel_ok, orphaned, cancel_refused, codec, logs, merge,
                 prefilter, store_up>>
FleetRest == <<TaskRest, matches>>

\* first step of the task: run.status = "running"
TaskBegin(p, r) ==
  /\ tasks[p][r].pc = "launched"
  /\ runs' = [runs EXCEPT ![r] = _emit_log([@ EXCEPT !.status = "running"], "workflow_start")]
  /\ tasks' = [tasks EXCEPT ![p][r] = [@ EXCEPT !.pc = "enter", !.node = EntryPoint]]
  /\ UNCHANGED <<lock, cancel_requested, FleetRest>>

Pairs(n) == [i \in 1..n |-> i]

\* AgentMatch(run_id, researcher_id, opportunity_id, ...): a pair id stands for
\* the (researcher_id, opportunity_id) of a match
AgentMatch(run_id, pair) == [run_id |-> run_id, pair |-> pair]

persist_rows_twice(table, run_id, final_matches) ==
  table \o [i \in 1..(2 * Len(final_matches)) |->
             AgentMatch(run_id, final_matches[(i + 1) \div 2])]

persist_rows_replacing(table, run_id, final_matches) ==
  [i \in 1..Len(final_matches) |-> AgentMatch(run_id, final_matches[i])]

\* persist_node: session.add for every final match, then session.commit
persist_rows(table, run_id, final_matches) ==
  table \o [i \in 1..Len(final_matches) |-> AgentMatch(run_id, final_matches[i])]

\* The graph runs the next node up to its first judge call.  Every node but
\* persist starts with _check_cancel; a batch loop checks again before the call.
NodeEnter(p, r, pairsets) ==
  LET t == tasks[p][r] IN
  /\ t.pc = "enter"
  /\ IF t.node # "persist" /\ _is_cancelled(r)
     THEN \* _check_cancel: the "cancel" event, then WorkflowCancelledError
          /\ tasks' = [tasks EXCEPT ![p][r] = [@ EXCEPT !.pc = "unwind", !.dropped = {}]]
          /\ runs' = [runs EXCEPT ![r] = _emit_log(_emit_log(@, "node_start"), "cancel")]
          /\ UNCHANGED <<lock, matches>>
     ELSE
       \/ /\ t.node \in {"plan", "discover"}
          /\ tasks' = [tasks EXCEPT ![p][r] = [@ EXCEPT !.pc = "call", !.batch = 1, !.dropped = {}]]
          /\ runs' = [runs EXCEPT ![r] = _emit_log(@, "node_start")]
          /\ UNCHANGED <<lock, matches>>
       \/ \* more than 50 researchers: enrichment skipped, no judge call
          /\ t.node = "discover"
          /\ AfterNode(p, r, t.node, NodeOutput(t.node, t.state, <<>>), {},
                       <<Sequence(t.node, 1, t.state.iteration)>>, "skipped")
          /\ UNCHANGED matches
       \/ /\ t.node = "pre_filter"
          /\ \E pairs \in pairsets :
               AfterNode(p, r, t.node,
                         [t.state EXCEPT !.candidate_pairs = pairs,
                                         !.status = "pre_filter_complete"], {},
                         <<Sequence(t.node, 1, t.state.iteration)>>, "completed")
          /\ UNCHANGED matches
       \/ /\ t.node \in {"match", "critique", "summarize"}
          /\ LoopItems(t.node, t.state) # <<>>
          /\ tasks' = [tasks EXCEPT ![p][r] = [@ EXCEPT !.pc = "call", !.batch = 1, !.dropped = {}]]
          /\ runs' = [runs EXCEPT ![r] = _emit_log(@, "node_start")]
          /\ UNCHANGED <<lock, matches>>
       \/ \* "if not candidate_pairs": returns without touching iteration
          /\ t.node = "match"
          /\ t.state.candidate_pairs = <<>>
          /\ AfterNode(p, r, t.node,
                       [t.state EXCEPT !.raw_matches = <<>>, !.status = "match_complete"],
                       {}, <<>>, "")
          /\ UNCHANGED matches
       \/ /\ t.node = "critique"
          /\ t.state.raw_matches = <<>>
          /\ AfterNode(p, r, t.node,
                       [t.state EXCEPT !.critiqued_matches = <<>>,
                                       !.status = "critique_complete"], {}, <<>>, "")
          /\ UNCHANGED matches
       \/ \* no critiqued matches, or none with overall_score >= 25
          /\ t.node = "summarize"
          /\ AfterNode(p, r, t.node, NodeOutput(t.node, t.state, <<>>), {}, <<>>, "")
          /\ UNCHANGED matches
       \/ \* persist_node: one session, one commit for all the rows
          /\ t.node = "persist"
          /\ matches' = persist_rows(matches, r, t.state.final_matches)
          /\ AfterNode(p, r, t.node, [t.state EXCEPT !.status = "completed"], {},
                       <<Sequence(t.node, 1, t.state.iteration)>>, "completed")
       \/ \* the commit raised: nothing inserted, the error goes into the state
          /\ t.node = "persist"
          /\ UNCHANGED matches
          /\ AfterNode(p, r, t.node,
                       [t.state EXCEPT !.errors = Append(@, 20),
                                       !.status = "persist_failed"], {}, <<>>, "")
  /\ UNCHANGED <<cancel_requested, TaskRest>>

\* "except Exception" of _execute_matchmaking: status failed, checkpoint kept
FailRun(run) == [run EXCEPT !.status = "failed"]

Contribution_lenient(node, state, batch, o, f) ==
  IF o = "err" THEN <<>> ELSE Batch(LoopItems(node, state), BatchSize(node), batch)

\* What one batch adds to acc: match keeps the pairs of a parsed batch;
\* critique keeps the ids the critic flagged (the first f of the batch).
Contribution(node, state, batch, o, f) ==
  LET items == Batch(LoopItems(node, state), BatchSize(node), batch) IN
  IF o # "ok" THEN <<>>
  ELSE IF node = "match" THEN items
  ELSE IF node = "critique" THEN SubSeq(items, 1, Min(f, Len(items)))
  ELSE <<>>

\* The judge call in flight returns: o = "ok" parsed, "bad" unparseable,
\* "err" the call raised (_invoke_agent logs the Step and re-raises).
\* _invoke_agent: the Step it records once the call has returned or raised,
\* whatever the caller then makes of the response
StepStatus(o) == IF o = "err" THEN "failed" ELSE "completed"

JudgeReturn(p, r, o, f) ==
  LET t == tasks[p][r]
      nb == NumBatches(Len(LoopItems(t.node, t.state)), BatchSize(t.node))
      acc2 == t.acc \o Contribution(t.node, t.state, t.batch, o, f)
      unparsed == IF o = "bad" THEN t.dropped \cup {t.batch} ELSE t.dropped
      seq == Sequence(t.node, t.batch, t.state.iteration)
  IN
  /\ t.pc = "call"
  /\ f = 0 \/ (t.node = "critique" /\ o = "ok")
  /\ IF o = "err"
     THEN \* _invoke_agent's "error" event, then "workflow_end" of the except branch
          /\ runs' = [runs EXCEPT ![r] =
                        _emit_log(FailRun(_emit_log(@, "error")), "workflow_end")]
          /\ tasks' = [tasks EXCEPT ![p][r] = NoTask]
          /\ Finally(p, r)
     ELSE IF t.batch < nb
     THEN /\ tasks' = [tasks EXCEPT ![p][r] =
                 IF _is_cancelled(r)
                 THEN [@ EXCEPT !.pc = "unwind", !.batch = 0, !.acc = <<>>,
                                !.dropped = unparsed, !.steps = Append(@, seq),
                                !.last_status = StepStatus(o)]
                 ELSE [@ EXCEPT !.batch = t.batch + 1, !.acc = acc2,
                                !.dropped = unparsed, !.steps = Append(@, seq),
                                !.last_status = StepStatus(o)]]
          /\ runs' = [runs EXCEPT ![r] = _emit_log(@, "llm_response")]
          /\ UNCHANGED <<lock, cancel_requested>>
     ELSE /\ AfterNode(p, r, t.node, NodeOutput(t.node, t.state, acc2), unparsed,
                       <<seq>>, StepStatus(o))
          /\ UNCHANGED cancel_requested
  /\ UNCHANGED FleetRest

\* "Determine final status"
FinalStatus(p, r, state) ==
  IF r \in cancel_requested[p] \/ _is_cancelled(r) THEN "cancelled"
  ELSE IF state.errors # <<>> THEN "failed"
  ELSE "completed"

TaskDetermine(p, r) ==
  /\ tasks[p][r].pc = "final"
  /\ tasks' = [tasks EXCEPT ![p][r] =
                 [@ EXCEPT !.pc = "write",
                           !.fstatus = FinalStatus(p, r, tasks[p][r].state)]]
  /\ UNCHANGED <<runs, lock, cancel_requested, FleetRest>>

\* "Update run with results": status and output_summary
TaskWrite(p, r) ==
  /\ tasks[p][r].pc = "write"
  /\ runs' = [runs EXCEPT ![r] = [@ EXCEPT !.status = tasks[p][r].fstatus,
                                           !.iterations = tasks[p][r].state.iteration]]
  /\ tasks' = [tasks EXCEPT ![p][r] = [@ EXCEPT !.pc = "clear"]]
  /\ UNCHANGED <<lock, cancel_requested, FleetRest>>

\* "Clear checkpoint on completion", then the finally block
TaskClear(p, r) ==
  /\ tasks[p][r].pc = "clear"
  /\ runs' = [runs EXCEPT ![r] = _emit_log(_clear_checkpoint(@), "workflow_end")]
  /\ tasks' = [tasks EXCEPT ![p][r] = NoTask]
  /\ Finally(p, r)
  /\ UNCHANGED FleetRest

\* "except (WorkflowCancelledError, asyncio.CancelledError)"
TaskUnwind(p, r) ==
  /\ tasks[p][r].pc = "unwind"
  /\ runs' = [runs EXCEPT ![r] =
                _emit_log(_clear_checkpoint([@ EXCEPT !.status = "cancelled"]),
                          "workflow_end")]
  /\ tasks' = [tasks EXCEPT ![p][r] = NoTask]
  /\ Finally(p, r)
  /\ UNCHANGED FleetRest


\* ------------------------------------------------------------ cancel_run
\* "if run and run.status in ('running', 'pending')": a Run that does not
\* exist is read as None
is_running_whatever(run) == run.status # "absent"

is_running(run) == run.status \in Active

\* reads the Run; it is running or pending: on to the flag
CancelCheck(p, r, b) ==
  /\ alive[p] /\ call[p].op = "idle"
  /\ cancels < b.cancels /\ Faults < b.faults
  /\ is_running(runs[r])
  /\ call' = [call EXCEPT ![p] = [op |-> "cancel", run |-> r]]
  /\ cancels' = cancels + 1
  /\ UNCHANGED <<lock, cancel_flag, runs, alive, scan, tasks, cancel_requested,
                 crashes, expiries, cancel_ok, orphaned, cancel_refused, matches, codec, logs, merge,
                 prefilter, store_up>>

\* reads the Run; "if not is_running: return False"
CancelRefuse(p, r, b) ==
  /\ alive[p] /\ call[p].op = "idle"
  /\ cancels < b.cancels /\ Faults < b.faults
  /\ ~is_running(runs[r])
  /\ cancel_refused' = cancel_refused \cup {r}
  /\ cancels' = cancels + 1
  /\ UNCHANGED <<lock, cancel_flag, runs, alive, call, scan, tasks, cancel_requested,
                 crashes, expiries, cancel_ok, orphaned, matches, codec, logs, merge,
                 prefilter, store_up>>

\* task.cancel(): CancelledError is thrown into the task where it awaits; a
\* task that has not run yet ends without executing any of its code.
LocalCancel(t) ==
  IF t.pc = "launched" THEN [NoTask EXCEPT !.pc = "dead"]
  ELSE IF Live(t) THEN [t EXCEPT !.pc = "unwind", !.batch = 0, !.acc = <<>>,
                                 !.dropped = {}]
  ELSE t

\* sets the Redis flag, then _cancel_requested and task.cancel(); returns True
CancelSignal(p) ==
  LET r == call[p].run IN
  /\ alive[p] /\ call[p].op = "cancel"
  /\ cancel_flag' = IF store_up THEN cancel_flag \cup {r} ELSE cancel_flag
  /\ runs' = [runs EXCEPT ![r] = _emit_log(@, "cancel")]
  /\ cancel_requested' = [cancel_requested EXCEPT ![p] = @ \cup {r}]
  /\ tasks' = [tasks EXCEPT ![p][r] = LocalCancel(@)]
  /\ cancel_ok' = cancel_ok \cup {r}
  /\ call' = [call EXCEPT ![p] = Idle]
  /\ UNCHANGED <<lock, alive, scan, crashes, expiries, cancels, orphaned,
                 cancel_refused, matches, codec, logs, merge,
                 prefilter, store_up>>

\* ------------------------------------------------------- crash and boot
Crash(p, b) ==
  /\ alive[p] /\ crashes < b.crashes /\ Faults < b.faults
  /\ alive' = [alive EXCEPT ![p] = FALSE]
  /\ tasks' = [tasks EXCEPT ![p] = [r \in RunIds |-> NoTask]]
  /\ call' = [call EXCEPT ![p] = Idle]
  /\ scan' = [scan EXCEPT ![p] = <<>>]
  /\ cancel_requested' = [cancel_requested EXCEPT ![p] = {}]
  /\ orphaned' = (orphaned \/ call[p].op = "start")
  /\ crashes' = crashes + 1
  /\ UNCHANGED <<lock, cancel_flag, runs, expiries, cancels, cancel_ok,
                 cancel_refused, matches, codec, logs, merge,
                 prefilter, store_up>>

\* process start: resume_interrupted_runs is entered
Boot(p) ==
  /\ ~alive[p]
  /\ alive' = [alive EXCEPT ![p] = TRUE]
  /\ call' = [call EXCEPT ![p] = [op |-> "resume", run |-> 0]]
  /\ UNCHANGED <<lock, cancel_flag, runs, scan, tasks, cancel_requested,
                 crashes, expiries, cancels, cancel_ok, orphaned, cancel_refused, matches, codec, logs, merge,
                 prefilter, store_up>>

\* ------------------------------------------------ resume_interrupted_runs
\* WHERE status IN ('running','pending') OR (status = 'failed' AND checkpoint_state IS NOT NULL)
Interrupted(run) ==
  \/ run.status \in Active
  \/ run.status = "failed" /\ run.checkpoint_state # NULL

Snapshot(r) ==
  [id |-> r, retry_count |-> runs[r].retry_count,
   checkpoint_state |-> runs[r].checkpoint_state,
   last_completed_node |-> runs[r].last_completed_node]

RECURSIVE SelectFrom(_)
SelectFrom(r) ==
  IF r > MaxRuns THEN <<>>
  ELSE IF Interrupted(runs[r]) THEN <<Snapshot(r)>> \o SelectFrom(r + 1)
  ELSE SelectFrom(r + 1)

\* "Release any stale lock first", then the query
ResumeScan(p) ==
  /\ alive[p] /\ call[p].op = "resume"
  /\ lock' = _release_lock(lock)
  /\ LET interrupted == SelectFrom(1) IN
     IF interrupted = <<>>
     THEN /\ call' = [call EXCEPT ![p] = Idle]
          /\ UNCHANGED scan
     ELSE /\ call' = [call EXCEPT ![p] = [op |-> "resume_loop", run |-> 0]]
          /\ scan' = [scan EXCEPT ![p] = interrupted]
  /\ UNCHANGED <<cancel_flag, runs, alive, tasks, cancel_requested, crashes,
                 expiries, cancels, cancel_ok, orphaned, cancel_refused, matches, codec, logs, merge,
                 prefilter, store_up>>

\* "Build resume state if checkpoint exists": None when there is no usable one
ResumeState(run) ==
  IF run.checkpoint_state # NULL /\ run.last_completed_node # NoNode
  THEN LET d == _deserialize_state(run.checkpoint_state) IN
       IF d.ok
       THEN [ok |-> TRUE, state |-> [d.state EXCEPT !.resume_after = run.last_completed_node]]
       ELSE Undecodable
  ELSE Undecodable

\* "continue": on to the next row read
Continue(p) ==
  /\ scan' = [scan EXCEPT ![p] = Tail(@)]
  /\ call' = [call EXCEPT ![p] = IF Tail(scan[p]) = <<>> THEN Idle ELSE @]

\* "break", and the return after it
Break(p) ==
  /\ scan' = [scan EXCEPT ![p] = <<>>]
  /\ call' = [call EXCEPT ![p] = Idle]

RetryExhausted_never(run) == FALSE

\* "Check retry cap", on the row as it was read
RetryExhausted(run) == run.retry_count >= MAX_AUTO_RETRIES

\* one pass of "for run in interrupted" on the row read at the scan
ResumeProcess(p) ==
  /\ alive[p] /\ call[p].op = "resume_loop"
  /\ LET run == Head(scan[p]) IN
     IF _is_cancelled(run.id)
     THEN /\ runs' = [runs EXCEPT ![run.id].status = "cancelled"]
          /\ Continue(p)
          /\ UNCHANGED <<lock, tasks, cancel_requested>>
     ELSE IF RetryExhausted(run)
     THEN /\ runs' = [runs EXCEPT ![run.id] =
                        [@ EXCEPT !.status = "failed", !.checkpoint_state = NULL]]
          /\ Continue(p)
          /\ UNCHANGED <<lock, tasks, cancel_requested>>
     ELSE /\ runs' = [runs EXCEPT ![run.id].retry_count = @ + 1]
          /\ Break(p)
          /\ IF _acquire_lock
             THEN /\ lock' = (store_up \/ lock)
                  /\ cancel_requested' = [cancel_requested EXCEPT ![p] = @ \ {run.id}]
                  /\ tasks' = [tasks EXCEPT ![p][run.id] =
                                 NewTask(ResumeState(run).state, ResumeState(run).ok)]
             ELSE UNCHANGED <<lock, tasks, cancel_requested>>
  /\ UNCHANGED <<cancel_flag, alive, crashes, expiries, cancels, cancel_ok,
                 orphaned, cancel_refused, matches, codec, logs, merge,
                 prefilter, store_up>>

\* --------------------------------------------------------- specification
NotDecoded == [done |-> FALSE, ok |-> FALSE, state |-> EmptyState]
CodecIdle == cin = EmptyState /\ ctoken = NULL /\ cout = NotDecoded

FleetAtRest ==
  /\ lock = FALSE
  /\ cancel_flag = {}
  /\ runs = [r \in RunIds |-> AbsentRun]
  /\ alive = [p \in Procs |-> TRUE]
  /\ call = [p \in Procs |-> Idle]
  /\ scan = [p \in Procs |-> <<>>]
  /\ tasks = [p \in Procs |-> [r \in RunIds |-> NoTask]]
  /\ cancel_requested = [p \in Procs |-> {}]
  /\ crashes = 0
  /\ expiries = 0
  /\ cancels = 0
  /\ cancel_ok = {}
  /\ orphaned = FALSE
  /\ cancel_refused = {}
  /\ matches = <<>>

\* every process idle, no Run, the store reachable
FleetIdle == FleetAtRest /\ store_up = TRUE

\* pre_filter_node has not been called
NoProfiles == [researchers |-> <<>>, opportunities |-> <<>>, top_n |-> 0]
PrefilterIdle == pf_in = NoProfiles /\ pf_out = <<>> /\ pf_pc = "none"

\* no stream_run_logs request, an empty log list
StreamIdle == [pc |-> "none", i |-> 0]

LogIdle ==
  /\ log = <<>> /\ cursor = 0 /\ entries = <<>> /\ sent = <<>> /\ stream = StreamIdle

\* neither merge has been called
MergeIdle ==
  /\ m_raw = <<>> /\ m_reviews = <<>> /\ m_summaries = <<>> /\ m_final = <<>>
  /\ m_critiqued = [raised |-> FALSE, critiqued_matches |-> <<>>]
  /\ m_pc = "none"

Init == FleetIdle /\ CodecIdle /\ LogIdle /\ MergeIdle /\ PrefilterIdle

\* what the judge and the pre-filter may answer
Inputs == [outcomes |-> {"ok", "bad", "err"}, flags |-> {0, 3, 4},
           pairs |-> {<<>>, Pairs(NPairs)}]

TaskStep(p, r, in) ==
  \/ TaskBegin(p, r)
  \/ NodeEnter(p, r, in.pairs)
  \/ \E o \in in.outcomes, f \in in.flags : JudgeReturn(p, r, o, f)
  \/ TaskDetermine(p, r)
  \/ TaskWrite(p, r)
  \/ TaskClear(p, r)
  \/ TaskUnwind(p, r)

\* one worker process, one Run, every answer of the judge
Solo == 1..1
Budget == [runs |-> 1, crashes |-> SoloCrashes, expiries |-> SoloExpiries,
           cancels |-> SoloCancels, faults |-> SoloCrashes + SoloExpiries + SoloCancels]

Next ==
  \/ \E p \in Solo : StartAcquire(p, Budget)
  \/ \E p \in Solo : StartCreate(p)
  \/ \E p \in Solo, r \in RunIds : TaskStep(p, r, Inputs)
  \/ \E p \in Solo, r \in RunIds : CancelCheck(p, r, Budget)
  \/ \E p \in Solo, r \in RunIds : CancelRefuse(p, r, Budget)
  \/ \E p \in Solo : CancelSignal(p)
  \/ \E p \in Solo : Crash(p, Budget)
  \/ \E p \in Solo : Boot(p)
  \/ \E p \in Solo : ResumeScan(p)
  \/ \E p \in Solo : ResumeProcess(p)
  \/ LockExpire(Budget)
  \/ \E r \in RunIds : CancelExpire(r, Budget)

Spec == Init /\ [][Next]_vars

\* the fleet: several worker processes, several Runs, a judge that answers or
\* raises, one candidate pair
FleetInputs == [outcomes |-> {"ok", "err"}, flags |-> {0}, pairs |-> {Pairs(1)}]
FleetBudget == [runs |-> MaxRuns, crashes |-> MaxCrashes, expiries |-> MaxExpiries,
                cancels |-> MaxCancels, faults |-> MaxFaults]

NextFleet ==
  \/ \E p \in Procs : StartAcquire(p, FleetBudget)
  \/ \E p \in Procs : StartCreate(p)
  \/ \E p \in Procs, r \in RunIds : TaskStep(p, r, FleetInputs)
  \/ \E p \in Procs, r \in RunIds : CancelCheck(p, r, FleetBudget)
  \/ \E p \in Procs, r \in RunIds : CancelRefuse(p, r, FleetBudget)
  \/ \E p \in Procs : CancelSignal(p)
  \/ \E p \in Procs : Crash(p, FleetBudget)
  \/ \E p \in Procs : Boot(p)
  \/ \E p \in Procs : ResumeScan(p)
  \/ \E p \in Procs : ResumeProcess(p)
  \/ LockExpire(FleetBudget)
  \/ \E r \in RunIds : CancelExpire(r, FleetBudget)

SpecFleet == Init /\ [][NextFleet]_vars

\* one worker, one Run, crash and boot again and again
RetryBudget == [runs |-> 1, crashes |-> MaxRetryCrashes, expiries |-> SoloExpiries,
                cancels |-> SoloCancels,
                faults |-> MaxRetryCrashes + SoloExpiries + SoloCancels]

NextRetry ==
  \/ \E p \in Solo : StartAcquire(p, RetryBudget)
  \/ \E p \in Solo : StartCreate(p)
  \/ \E p \in Solo, r \in RunIds : TaskStep(p, r, FleetInputs)
  \/ \E p \in Solo, r \in RunIds : CancelCheck(p, r, RetryBudget)
  \/ \E p \in Solo : CancelSignal(p)
  \/ \E p \in Solo : Crash(p, RetryBudget)
  \/ \E p \in Solo : Boot(p)
  \/ \E p \in Solo : ResumeScan(p)
  \/ \E p \in Solo : ResumeProcess(p)
  \/ LockExpire(RetryBudget)
  \/ \E r \in RunIds : CancelExpire(r, RetryBudget)

SpecRetry == Init /\ [][NextRetry]_vars

\* ---------------------------------------------------- damaged checkpoints
\* what a stored checkpoint can have become when the column no longer holds
\* what _save_checkpoint wrote: a truncated text, a JSON value that is not an
\* object, an object without any key of the state, an object holding only
\* the iteration
Damaged(data) ==
  { SubSeq(data, 1, Len(data) - 1),
    <<P("["), P("]")>>,
    <<P("{"), P("}")>>,
    <<P("{"), Tok("name", "iteration"), P(":"), Tok("int", 1), P("}")>> }

\* the text is what _serialize_state gives for the state it decodes to
Intact(data) ==
  /\ _deserialize_state(data).ok
  /\ _serialize_state(_deserialize_state(data).state) = data

\* the checkpoint of r is damaged while no worker is up
Damage(r) ==
  /\ \A p \in Procs : ~alive[p] \/ p \notin Solo
  /\ \E p \in Solo : ~alive[p]
  /\ runs[r].checkpoint_state # NULL
  /\ Intact(runs[r].checkpoint_state)
  /\ \E d \in Damaged(runs[r].checkpoint_state) :
       runs' = [runs EXCEPT ![r].checkpoint_state = d]
  /\ UNCHANGED <<lock, cancel_flag, alive, call, scan, tasks, cancel_requested,
                 crashes, expiries, cancels, cancel_ok, orphaned, cancel_refused,
                 matches, codec, logs, merge,
                 prefilter, store_up>>

\* one worker, one Run, a crash after which the checkpoint may be damaged
DamageBudget == [runs |-> 1, crashes |-> MaxCrashes, expiries |-> SoloExpiries,
                 cancels |-> SoloCancels,
                 faults |-> MaxCrashes + SoloExpiries + SoloCancels]

NextDamage ==
  \/ \E p \in Solo : StartAcquire(p, DamageBudget)
  \/ \E p \in Solo : StartCreate(p)
  \/ \E p \in Solo, r \in RunIds : TaskStep(p, r, FleetInputs)
  \/ \E p \in Solo, r \in RunIds : CancelCheck(p, r, DamageBudget)
  \/ \E p \in Solo, r \in RunIds : CancelRefuse(p, r, DamageBudget)
  \/ \E p \in Solo : CancelSignal(p)
  \/ \E p \in Solo : Crash(p, DamageBudget)
  \/ \E p \in Solo : Boot(p)
  \/ \E p \in Solo : ResumeScan(p)
  \/ \E p \in Solo : ResumeProcess(p)
  \/ LockExpire(DamageBudget)
  \/ \E r \in RunIds : CancelExpire(r, DamageBudget)
  \/ \E r \in RunIds : Damage(r)

SpecDamage == Init /\ [][NextDamage]_vars

\* ------------------------------------------------------- booting workers
\* several workers that crash and boot again and again around one Run; no
\* cancel request is made and the lock does not expire
BootsBudget == [runs |-> 1, crashes |-> MaxRetryCrashes, expiries |-> 0,
                cancels |-> 0, faults |-> MaxRetryCrashes]

NextBoots ==
  \/ \E p \in Procs : StartAcquire(p, BootsBudget)
  \/ \E p \in Procs : StartCreate(p)
  \/ \E p \in Procs, r \in RunIds : TaskBegin(p, r)
  \/ \E p \in Procs, r \in RunIds : NodeEnter(p, r, FleetInputs.pairs)
  \/ \E p \in Procs, r \in RunIds :
       \E o \in FleetInputs.outcomes, f \in FleetInputs.flags : JudgeReturn(p, r, o, f)
  \/ \E p \in Procs, r \in RunIds : TaskDetermine(p, r)
  \/ \E p \in Procs, r \in RunIds : TaskWrite(p, r)
  \/ \E p \in Procs, r \in RunIds : TaskClear(p, r)
  \/ \E p \in Procs : Crash(p, BootsBudget)
  \/ \E p \in Procs : Boot(p)
  \/ \E p \in Procs : ResumeScan(p)
  \/ \E p \in Procs : ResumeProcess(p)

SpecBoots == Init /\ [][NextBoots]_vars

\* ------------------------------------------------------- store outage
\* the Redis server does not answer from the start; one worker that is asked
\* to start and to cancel runs and stays up
InitOutage ==
  /\ FleetAtRest /\ store_up = FALSE
  /\ CodecIdle /\ LogIdle /\ MergeIdle /\ PrefilterIdle

OutageBudget == [runs |-> MaxRuns, crashes |-> 0, expiries |-> 0,
                 cancels |-> SoloCancels, faults |-> SoloCancels]

NextOutage ==
  \/ \E p \in Solo : StartAcquire(p, OutageBudget)
  \/ \E p \in Solo : StartCreate(p)
  \/ \E p \in Solo, r \in RunIds : TaskStep(p, r, FleetInputs)
  \/ \E p \in Solo, r \in RunIds : CancelCheck(p, r, OutageBudget)
  \/ \E p \in Solo, r \in RunIds : CancelRefuse(p, r, OutageBudget)
  \/ \E p \in Solo : CancelSignal(p)

\* the event loop runs every task that can take a step
SpecOutage ==
  /\ InitOutage /\ [][NextOutage]_vars
  /\ \A p \in Solo, r \in RunIds : WF_vars(TaskStep(p, r, FleetInputs))

\* one worker, one Run whose pre-filter leaves one pair more than a match
\* batch holds, so that match_node makes two judge calls
BatchInputs == [outcomes |-> {"ok", "bad", "err"}, flags |-> {0, 4},
                pairs |-> {Pairs(MATCH_BATCH + 1)}]
BatchBudget == [runs |-> 1, crashes |-> 0, expiries |-> 0, cancels |-> SoloCancels,
                faults |-> SoloCancels]

NextBatches ==
  \/ \E p \in Solo : StartAcquire(p, BatchBudget)
  \/ \E p \in Solo : StartCreate(p)
  \/ \E p \in Solo, r \in RunIds : TaskStep(p, r, BatchInputs)
  \/ \E p \in Solo, r \in RunIds : CancelCheck(p, r, BatchBudget)
  \/ \E p \in Solo, r \in RunIds : CancelRefuse(p, r, BatchBudget)
  \/ \E p \in Solo : CancelSignal(p)

SpecBatches == Init /\ [][NextBatches]_vars

\* ------------------------------------------------------- the log stream
\* One Run's event list pf:workflow:<id>:log and one stream_run_logs request
\* on it.  The list's TTL (3600 s) is renewed by every append and nothing
\* deletes or trims the list; its expiry is not part of this specification.
\* An entry is the payload json.dumps wrote: its "type", and seq standing for
\* the rest of the payload ("ts", "message"), which differs from event to event.
\* evt = json.loads(entry); evt.get("type") == "workflow_end"
IsWorkflowEnd(entry) == entry.type = "workflow_end"

\* r.lrange(list_key, cursor, -1): the entries from index cursor (0-based) on
LRange_exclusive(list, start) == SubSeq(list, start + 2, Len(list))

LRange(list, start) == SubSeq(list, start + 1, Len(list))

\* _emit_log: r.rpush(list_key, payload), by the pipeline or by cancel_run
EmitLog(type) ==
  /\ Len(log) < MaxEvents
  /\ log' = Append(log, [type |-> type, seq |-> Len(log) + 1])
  /\ UNCHANGED <<fleet, prefilter, codec, merge, cursor, entries, sent, stream>>

\* GET /api/workflows/runs/{run_id}/logs/stream: cursor = 0, subscribe
StreamOpen ==
  /\ stream.pc = "none"
  /\ cursor' = 0
  /\ stream' = [pc |-> "read", i |-> 0]
  /\ UNCHANGED <<fleet, prefilter, codec, merge, log, entries, sent>>

\* top of the while loop, before the ceiling: entries = lrange(cursor, -1)
StreamRead ==
  /\ stream.pc = "read"
  /\ entries' = LRange(log, cursor)
  /\ stream' = IF entries' = <<>> THEN [pc |-> "wait", i |-> 0]
                ELSE [pc |-> "yield", i |-> 1]
  /\ UNCHANGED <<fleet, prefilter, codec, merge, log, cursor, sent>>

\* "yield f'data: {entry}'", then the check for the terminal event; after the
\* last entry "cursor += len(entries)"
StreamYield ==
  /\ stream.pc = "yield"
  /\ sent' = Append(sent, entries[stream.i])
  /\ IF IsWorkflowEnd(entries[stream.i])
     THEN /\ stream' = [pc |-> "closed", i |-> 0]
          /\ UNCHANGED <<cursor, entries>>
     ELSE IF stream.i < Len(entries)
     THEN /\ stream' = [stream EXCEPT !.i = @ + 1]
          /\ UNCHANGED <<cursor, entries>>
     ELSE /\ cursor' = cursor + Len(entries)
          /\ entries' = <<>>
          /\ stream' = [pc |-> "wait", i |-> 0]
  /\ UNCHANGED <<fleet, prefilter, codec, merge, log>>

\* a pub/sub notification arrived, or 15 s passed and the keepalive was sent
StreamWait ==
  /\ stream.pc = "wait"
  /\ stream' = [pc |-> "read", i |-> 0]
  /\ UNCHANGED <<fleet, prefilter, codec, merge, log, cursor, entries, sent>>

\* the while condition fails: 900 s have passed
StreamTimeout ==
  /\ stream.pc = "read"
  /\ stream' = [pc |-> "timeout", i |-> 0]
  /\ UNCHANGED <<fleet, prefilter, codec, merge, log, cursor, entries, sent>>

NextLog ==
  \/ \E type \in {"info", "workflow_end"} : EmitLog(type)
  \/ StreamOpen
  \/ StreamRead
  \/ StreamYield
  \/ StreamWait
  \/ StreamTimeout

\* the generator runs on while its client reads
SpecLog ==
  /\ Init /\ [][NextLog]_vars
  /\ WF_vars(StreamRead) /\ WF_vars(StreamYield) /\ WF_vars(StreamWait)

\* ------------------------------------------------------------ the codec
\* Pipeline States handed to _serialize_state: short ones, and for each the
\* two whose text is COMPRESS_THRESHOLD and COMPRESS_THRESHOLD + 1 characters
\* long (one error message makes up the length).
SmallStates ==
  { [candidate_pairs |-> Pairs(np), raw_matches |-> Pairs(nm),
     critiqued_matches |-> [i \in 1..nc |-> [id |-> i, flagged |-> (i = fl)]],
     final_matches |-> Pairs(nc), iteration |-> it,
     max_iterations |-> DEFAULT_MAX_ITERATIONS,
     errors |-> er, status |-> st, resume_after |-> ra] :
      np \in 0..MaxLen, nm \in {0, MaxLen}, nc \in {0, MaxLen}, fl \in 0..1,
      it \in {0, DEFAULT_MAX_ITERATIONS}, er \in {<<>>, <<20, 7>>},
      st \in {"starting", "critique_complete"}, ra \in {"", "match:1"} }

Padded(state, n) ==
  [state EXCEPT !.errors =
     <<n - TextLen(JsonDumps([state EXCEPT !.errors = <<0>>]))>>]

CodecInputs ==
  SmallStates
    \cup {Padded(st, COMPRESS_THRESHOLD) : st \in SmallStates}
    \cup {Padded(st, COMPRESS_THRESHOLD + 1) : st \in SmallStates}

InitCodec ==
  /\ FleetIdle /\ LogIdle /\ MergeIdle /\ PrefilterIdle
  /\ cin \in CodecInputs
  /\ ctoken = NULL
  /\ cout = NotDecoded

\* checkpoint_state = _serialize_state(state)
Encode ==
  /\ ctoken = NULL
  /\ ctoken' = _serialize_state(cin)
  /\ UNCHANGED <<fleet, prefilter, cin, cout, logs, merge>>

\* resume_state = _deserialize_state(run.checkpoint_state); an exception of
\* json.loads / b64decode / decompress is ok = FALSE
Decode ==
  /\ ctoken # NULL /\ ~cout.done
  /\ cout' = [done |-> TRUE, ok |-> _deserialize_state(ctoken).ok,
              state |-> _deserialize_state(ctoken).state]
  /\ UNCHANGED <<fleet, prefilter, cin, ctoken, logs, merge>>

NextCodec == Encode \/ Decode

SpecCodec == InitCodec /\ [][NextCodec]_vars


\* ------------------------------------------- critique and summarize merges
\* A Python dict is a function on its keys; {} is the function on no key.
EmptyDict == [k \in {} |-> 0]
\* JSON null
None == [none |-> TRUE]
IsNone(v) == "none" \in DOMAIN v

\* d.get(k, default)
Get(d, k, default) == IF k \in DOMAIN d THEN d[k] ELSE default

\* {**m, **d}
Update(m, d) ==
  [f \in DOMAIN m \cup DOMAIN d |-> IF f \in DOMAIN d THEN d[f] ELSE m[f]]

\* "for c in entries: map[key(c)] = c": the last entry of a key wins; key
\* stands for the pair (researcher_id, opportunity_id)
LastOf(all, k) ==
  CHOOSE i \in 1..Len(all) :
    all[i].key = k /\ \A j \in (i + 1)..Len(all) : all[j].key # k

MapByKey(all) ==
  [k \in {all[i].key : i \in 1..Len(all)} |-> all[LastOf(all, k)]]

\* the dict critique_node appends for the raw match m, given the critic's
\* entry for its key ({} when there is none)
MergeOne(m, critique) ==
  LET adjusted == Get(critique, "adjusted_scores", EmptyDict) IN
  Update(m,
    [relevance_score |-> Get(adjusted, "relevance_score", m.relevance_score),
     feasibility_score |-> Get(adjusted, "feasibility_score", m.feasibility_score),
     impact_score |-> Get(adjusted, "impact_score", m.impact_score),
     overall_score |-> Get(adjusted, "overall_score", m.overall_score),
     critique |-> Get(critique, "critique", ""),
     flagged |-> Get(critique, "flagged", FALSE),
     revision_needed |-> Get(critique, "revision_needed", FALSE)])

\* "Merge critic feedback with raw matches".  adjusted.get on None is an
\* AttributeError: the node raises and returns nothing.
critique_merge(raw_matches, all_critiqued) ==
  LET critic_map == MapByKey(all_critiqued)
      entry(m) == Get(critic_map, m.key, EmptyDict)
  IN IF \E i \in 1..Len(raw_matches) :
          IsNone(Get(entry(raw_matches[i]), "adjusted_scores", EmptyDict))
     THEN [raised |-> TRUE, critiqued_matches |-> <<>>]
     ELSE [raised |-> FALSE,
           critiqued_matches |->
             [i \in 1..Len(raw_matches) |->
                MergeOne(raw_matches[i], entry(raw_matches[i]))]]

\* m.get("overall_score", 0) >= 25
Worthy(m) == Get(m, "overall_score", 0) >= SUMMARY_THRESHOLD
worthy_matches(critiqued_matches) == SelectSeq(critiqued_matches, Worthy)

\* summaries_map[key] = s.get("summary", "")
SummariesMap(parsed) ==
  [k \in DOMAIN MapByKey(parsed) |-> Get(MapByKey(parsed)[k], "summary", "")]

\* summarize_node for the summarizer's parsed entries (one batch)
summarize_merge(critiqued_matches, parsed) ==
  IF critiqued_matches = <<>> THEN <<>>
  ELSE IF worthy_matches(critiqued_matches) = <<>> THEN critiqued_matches
  ELSE [i \in 1..Len(critiqued_matches) |->
          Update(critiqued_matches[i],
                 [summary |-> Get(SummariesMap(parsed), critiqued_matches[i].key, "")])]

SeqsUpTo(S, n) == UNION {[1..k -> S] : k \in 0..n}

\* what match_node appends to raw_matches: every score key is present
RawMatch(k, a) ==
  [key |-> k, relevance_score |-> a, feasibility_score |-> a,
   impact_score |-> a, overall_score |-> a]

RawInputs == SeqsUpTo({RawMatch(k, a) : k \in 1..2, a \in {20, 60}}, MaxMatches)

\* entries the critic may answer with, for a pair of the run or another one
ReviewsOf(k) ==
  { [key |-> k],
    [key |-> k, critique |-> "weak", flagged |-> TRUE],
    [key |-> k, adjusted_scores |-> EmptyDict, revision_needed |-> TRUE],
    [key |-> k, adjusted_scores |-> [overall_score |-> 10], critique |-> "inflated"],
    [key |-> k, adjusted_scores |-> RawMatch(k, 70), flagged |-> FALSE],
    [key |-> k, adjusted_scores |-> None, critique |-> "fine"] }

ReviewInputs == SeqsUpTo(UNION {ReviewsOf(k) : k \in 1..3}, MaxReviews)

\* entries the summarizer may answer with
SummaryInputs ==
  SeqsUpTo({[key |-> k, summary |-> "fits"] : k \in 1..2} \cup {[key |-> k] : k \in 1..2},
           MaxSummaries)

InitMerge ==
  /\ FleetIdle /\ CodecIdle /\ LogIdle /\ PrefilterIdle
  /\ m_raw \in RawInputs
  /\ m_reviews \in ReviewInputs
  /\ m_critiqued = [raised |-> FALSE, critiqued_matches |-> <<>>]
  /\ m_summaries = <<>> /\ m_final = <<>>
  /\ m_pc = "match"

\* critique_node returns (or raises)
CritiqueMerge ==
  /\ m_pc = "match"
  /\ m_critiqued' = critique_merge(m_raw, m_reviews)
  /\ m_pc' = "critique"
  /\ UNCHANGED <<fleet, prefilter, codec, logs, m_raw, m_reviews, m_summaries, m_final>>

\* summarize_node returns; the summarizer is called only for worthy matches
SummarizeMerge ==
  /\ m_pc = "critique" /\ ~m_critiqued.raised
  /\ \E parsed \in SummaryInputs :
       /\ worthy_matches(m_critiqued.critiqued_matches) = <<>> => parsed = <<>>
       /\ m_summaries' = parsed
       /\ m_final' = summarize_merge(m_critiqued.critiqued_matches, parsed)
  /\ m_pc' = "summarize"
  /\ UNCHANGED <<fleet, prefilter, codec, logs, m_raw, m_reviews, m_critiqued>>

NextMerge == CritiqueMerge \/ SummarizeMerge

SpecMerge == InitMerge /\ [][NextMerge]_vars

\* ------------------------------------------------ match_node: raw_matches
\* float() of a JSON number: the same number
float(x) == x

\* "Normalize matches to ensure required fields": one entry of raw_matches
\* from one entry of the matchmaker's parsed answer
raw_match(m) ==
  [key |-> Get(m, "key", 0),
   relevance_score |-> float(Get(m, "relevance_score", 0)),
   feasibility_score |-> float(Get(m, "feasibility_score", 0)),
   impact_score |-> float(Get(m, "impact_score", 0)),
   overall_score |-> float(Get(m, "overall_score", 0))]

raw_matches_of(all_matches) == [i \in 1..Len(all_matches) |-> raw_match(all_matches[i])]

\* entries the matchmaker may answer with: scores that agree with the
\* weighting, scores that do not, and entries without an overall_score
JudgedScores == {0, 40, 100}
JudgedMatches ==
  {[key |-> 1, relevance_score |-> a, feasibility_score |-> b, impact_score |-> c,
    overall_score |-> o] : a, b, c, o \in JudgedScores}
  \cup {[key |-> 1, relevance_score |-> a, feasibility_score |-> b, impact_score |-> c] :
          a, b, c \in JudgedScores}

InitScores ==
  /\ FleetIdle /\ CodecIdle /\ LogIdle /\ PrefilterIdle
  /\ m_raw \in SeqsUpTo(JudgedMatches, 1)
  /\ m_reviews = <<>> /\ m_summaries = <<>> /\ m_final = <<>>
  /\ m_critiqued = [raised |-> FALSE, critiqued_matches |-> <<>>]
  /\ m_pc = "judged"

\* match_node has all_matches (here in m_raw) and builds raw_matches
Normalize ==
  /\ m_pc = "judged"
  /\ m_raw' = raw_matches_of(m_raw)
  /\ m_pc' = "match"
  /\ UNCHANGED <<fleet, prefilter, codec, logs, m_reviews, m_critiqued, m_summaries, m_final>>

NextScores == Normalize

SpecScores == InitScores /\ [][NextScores]_vars

\* --------------------------------- pre_filter_node without scikit-learn
Max(a, b) == IF a > b THEN a ELSE b

\* seq[:n] of Python: the first n items, all but the last -n when n < 0
Slice(seq, n) ==
  IF n >= 0 THEN SubSeq(seq, 1, Min(n, Len(seq)))
  ELSE SubSeq(seq, 1, Max(Len(seq) + n, 0))

CandidatePair(rp, op) == [researcher_id |-> rp, opportunity_id |-> op, tfidf_score |-> 0]

\* "for op in opportunity_profiles[:top_n]": appends until the list holds cap pairs
InnerLoop(rp, ops, acc) ==
  acc \o [j \in 1..Min(Len(ops), FALLBACK_CAP - Len(acc)) |-> CandidatePair(rp, ops[j])]

\* "for rp in researcher_profiles", left by the second break
RECURSIVE OuterLoop(_, _, _, _)
OuterLoop(rps, i, ops, acc) ==
  IF i > Len(rps) THEN acc
  ELSE LET more == InnerLoop(rps[i], ops, acc) IN
       IF Len(more) >= FALLBACK_CAP THEN more ELSE OuterLoop(rps, i + 1, ops, more)

\* pre_filter_node when the import of scikit-learn raises ImportError
pre_filter_fallback(in) ==
  IF in.researchers = <<>> \/ in.opportunities = <<>> THEN <<>>
  ELSE OuterLoop(in.researchers, 1, Slice(in.opportunities, in.top_n), <<>>)

\* profiles in load order: researchers 1.., opportunities 101..; top_n is
\* what the planner's answer holds under top_n_candidates
Researchers(n) == [i \in 1..n |-> i]
Opportunities(n) == [j \in 1..n |-> 100 + j]
PrefilterInputs ==
  {[researchers |-> Researchers(r), opportunities |-> Opportunities(o), top_n |-> n] :
     r \in {0, 1, 2, 3, ManyResearchers}, o \in {0, 1, 2, 3, ManyOpportunities},
     n \in {-1, 0, 1, 2, DEFAULT_TOP_N, ManyOpportunities}}

InitPrefilter ==
  /\ FleetIdle /\ CodecIdle /\ LogIdle /\ MergeIdle
  /\ pf_in \in PrefilterInputs
  /\ pf_out = <<>>
  /\ pf_pc = "called"

PreFilterReturn ==
  /\ pf_pc = "called"
  /\ pf_out' = pre_filter_fallback(pf_in)
  /\ pf_pc' = "returned"
  /\ UNCHANGED <<fleet, codec, logs, merge, pf_in>>

NextPrefilter == PreFilterReturn

SpecPrefilter == InitPrefilter /\ [][NextPrefilter]_vars


\* ================================================================ claims
ActiveRuns == {r \in RunIds : runs[r].status \in Active}
InGraph == {pr \in Procs \X RunIds : tasks[pr[1]][pr[2]].pc \in {"enter", "call"}}
AllIdle == \A p \in Procs : call[p].op = "idle"

\* C1: whatever starts and boot-time resumes the worker processes interleave,
\* at most one task is inside the graph, advancing pipeline state, at a time.
C1_MutualExclusion == Cardinality(InGraph) <= 1

\* C2: when no Run is active (no Run pending or running, no task, no call in
\* progress, no process died between taking the lock and inserting its Run),
\* a start finds the lock free, so one of two concurrent starts gets a run id.
C2_ColdStartAcquires ==
  (ActiveRuns = {} /\ LiveTasks = {} /\ AllIdle /\ ~orphaned) => _acquire_lock

\* C3: at most one Run is pending or running, unless a process has crashed
\* between lock acquisition and Run creation.
C3_SingleActiveRun == ~orphaned => Cardinality(ActiveRuns) <= 1

\* C4: the iterations value written to a Run's output_summary never exceeds
\* max_iterations, for fresh and for resumed executions.
C4_BoundedIterations == \A r \in RunIds : runs[r].iterations <= DEFAULT_MAX_ITERATIONS

Nodes == {"plan", "discover", "pre_filter", "match", "critique", "summarize", "persist"}
NodeOfKey(key) ==
  CHOOSE n \in Nodes : \E i \in 0..(2 * DEFAULT_MAX_ITERATIONS + 2) : CheckpointKey(n, i) = key

\* C5: a task resumed from the checkpoint written after node N executes first
\* the node that follows N (after "match:1": critique, not plan).
C5_ResumeAfterCheckpoint ==
  [][\A p \in Procs, r \in RunIds :
       (/\ tasks[p][r].pc = "launched" /\ tasks[p][r].resumed
        /\ tasks'[p][r].pc = "enter")
       => tasks'[p][r].node =
            NextNode(NodeOfKey(tasks[p][r].state.resume_after), tasks[p][r].state)]_vars

Capped(r) == runs[r].retry_count >= MAX_AUTO_RETRIES

\* the step in which resume_interrupted_runs at p handles the row of Run r
ProcessedNow(p, r) ==
  /\ alive[p] /\ call[p].op = "resume_loop" /\ Head(scan[p]).id = r
  /\ alive'[p] /\ scan'[p] # scan[p]

C7_OnlyCancelled ==
  [][\A r \in cancel_ok :
       runs[r].status \in Active => runs'[r].status \in Active \cup {"cancelled"}]_vars

\* C8: _deserialize_state(_serialize_state(state)) = state field for field;
\* the token starts with "zlib:" exactly when the JSON text is longer than
\* COMPRESS_THRESHOLD.
C8_RoundTrip ==
  /\ ctoken # NULL =>
       (StartsWithZlib(ctoken) <=> TextLen(JsonDumps(cin)) > COMPRESS_THRESHOLD)
  /\ cout.done => (cout.ok /\ cout.state = cin)

\* a state one character over the threshold came back through the zlib path
C8_CompressedRoundTrip ==
  /\ cout.done /\ cout.ok /\ cout.state = cin
  /\ StartsWithZlib(ctoken)
  /\ TextLen(JsonDumps(cin)) = COMPRESS_THRESHOLD + 1
  /\ cin.critiqued_matches # <<>>

Revise(state) ==
  /\ state.critiqued_matches # <<>>
  /\ 10 * FlaggedCount(state.critiqued_matches) > 3 * Len(state.critiqued_matches)
  /\ state.iteration < state.max_iterations

\* C9: when critique has returned, the next node is match if and only if
\* critiqued_matches is non-empty and more than 30% of it is flagged and
\* iteration < max_iterations; otherwise it is summarize.
C9_Routing ==
  [][\A p \in Procs, r \in RunIds :
       (/\ tasks[p][r].node = "critique" /\ tasks[p][r].pc \in {"enter", "call"}
        /\ tasks'[p][r].pc = "enter" /\ tasks'[p][r] # tasks[p][r])
       => IF Revise(tasks'[p][r].state)
          THEN tasks'[p][r].node = "match"
          ELSE tasks'[p][r].node = "summarize"]_vars

\* a fresh execution that looped back once (4 of 10 flagged in pass 1, none
\* in pass 2) and wrote iterations = 2
C9_ForcedRevision ==
  \E p \in Procs, r \in RunIds :
    /\ tasks[p][r].pc = "clear" /\ ~tasks[p][r].resumed
    /\ runs[r].retry_count = 0
    /\ runs[r].status = "completed" /\ runs[r].iterations = 2
    /\ Len(tasks[p][r].state.critiqued_matches) = NPairs
    /\ FlaggedCount(tasks[p][r].state.critiqued_matches) = 0

\* C10: once a Run is completed or cancelled (the terminal statuses that no
\* boot resumes) no operation changes its status again.
C10_TerminalIsFinal ==
  [][\A r \in RunIds :
       runs[r].status \in {"completed", "cancelled"}
         => runs'[r].status = runs[r].status]_vars

\* an execution of Run r is between a status write and the checkpoint clear
\* that follows it
Finishing(r) == \E p \in Procs : tasks[p][r].pc \in {"clear", "unwind"}

\* C11: every Run that is completed or cancelled has checkpoint_state null,
\* whichever path set the status: normal completion, a cancellation observed
\* during execution, or a cancel flag found by the boot-time resume (the
\* moment between the status write and the clear that follows is left out).
C11_DoneMeansCleared ==
  \A r \in RunIds :
    (runs[r].status \in {"completed", "cancelled"} /\ ~Finishing(r))
      => runs[r].checkpoint_state = NULL

\* the step in which the execution of Run r at p ends (not by a crash)
Ends(p, r) == Live(tasks[p][r]) /\ tasks'[p][r].pc = "none" /\ alive'[p]

\* C12: when an execution ends with the Run marked failed, the checkpoint of
\* the last completed node is still there, also when the failure is a failed
\* database write inside persist.
C12_FailedKeepsCheckpoint ==
  [][\A p \in Procs, r \in RunIds :
       (Ends(p, r) /\ runs'[r].status = "failed" /\ runs[r].checkpoint_state # NULL)
       => runs'[r].checkpoint_state = runs[r].checkpoint_state]_vars

\* the step in which cancel_run(r) at p reads the Run and goes on / returns True
CancelProceeds(p, r) == call[p].op = "idle" /\ call'[p] = [op |-> "cancel", run |-> r]
CancelReturnsTrue(p, r) ==
  call[p] = [op |-> "cancel", run |-> r] /\ call'[p].op = "idle" /\ alive'[p]

\* C13: cancel_run(r) returns False and changes nothing (no flag, no task
\* signalled, no Run touched) when Run r does not exist or is not running or
\* pending; when it is running or pending the call goes on, sets the cancel
\* flag of r and returns True.
C13_CancelContract ==
  [][\A r \in RunIds :
       /\ (r \notin cancel_refused /\ r \in cancel_refused')
            => /\ runs[r].status \notin Active
               /\ UNCHANGED <<cancel_flag, tasks, cancel_requested, runs, cancel_ok,
                              lock, call>>
       /\ \A p \in Procs :
            /\ CancelProceeds(p, r) => runs[r].status \in Active
            /\ CancelReturnsTrue(p, r) => (r \in cancel_flag' /\ r \in cancel_ok')
       /\ (r \notin cancel_flag /\ r \in cancel_flag')
            => \E p \in Procs : CancelReturnsTrue(p, r)]_vars

\* both answers were given: False for a Run that had ended, True for one that
\* was running, whose flag is set
C13_BothAnswers ==
  \E r \in cancel_refused, q \in cancel_ok :
    runs[r].status \in Terminal /\ q \in cancel_flag

\* C14: a cancellation request never interrupts a judge call in flight, in
\* the process that owns the task or in another one: the step in which
\* cancel_run sets the flag leaves every task that is waiting for the judge
\* where it is.
C14_CallNotInterrupted ==
  [][\A p \in Procs, r \in RunIds :
       CancelReturnsTrue(p, r)
       => \A q \in Procs :
            tasks[q][r].pc = "call" => tasks'[q][r] = tasks[q][r]]_vars

\* C15: when the task of a run ends, with whatever outcome, the lock key is
\* absent from the store right afterwards, so that a following start succeeds.
C15_LockReleasedAtEnd ==
  [][\A p \in Procs, r \in RunIds : Ends(p, r) => ~lock']_vars

\* C16: a judge call that raises in plan, discover, match, critique or
\* summarize never makes the Run end failed: the task that was waiting for
\* the judge goes on, and the Run is not marked failed in that step.
C16_JudgeErrorTolerated ==
  [][\A p \in Procs, r \in RunIds :
       (tasks[p][r].pc = "call" /\ tasks'[p][r] # tasks[p][r] /\ alive'[p])
       => (runs'[r].status = "failed" => runs[r].status = "failed")]_vars

\* what the batches 1..upto of a node have contributed when the batches in
\* unparsed gave nothing and every other one gave its items
RECURSIVE KeptBatches(_, _, _, _)
KeptBatches(node, state, upto, unparsed) ==
  IF upto = 0 THEN <<>>
  ELSE KeptBatches(node, state, upto - 1, unparsed)
         \o (IF upto \in unparsed THEN <<>>
             ELSE Batch(LoopItems(node, state), BatchSize(node), upto))

\* C17: when the judge's answer for a match batch cannot be parsed, that
\* batch contributes no match, what the other batches gave is kept, the Run's
\* status is left alone and the task goes on with the next batch or node.
C17_ParseFailureTolerated ==
  [][\A p \in Procs, r \in RunIds :
       LET t == tasks[p][r]
           u == tasks'[p][r]
       IN (t.pc = "call" /\ t.node = "match" /\ u # t /\ u.pc \in {"call", "enter"})
          => /\ u.pc = "call" =>
                  (u.batch = t.batch + 1
                   /\ u.acc = KeptBatches("match", t.state, t.batch, u.dropped))
             /\ u.pc = "enter" =>
                  (u.node = "critique"
                   /\ u.state.raw_matches =
                        KeptBatches("match", t.state, t.batch, u.dropped))
             /\ runs'[r].status = runs[r].status]_vars

\* a Run completed although the first of its two match batches was
\* unparseable: its matches are those of the second batch
C17_CompletedWithoutBatch ==
  \E p \in Procs, r \in RunIds :
    /\ tasks[p][r].pc = "clear" /\ runs[r].status = "completed"
    /\ Len(tasks[p][r].state.candidate_pairs) = MATCH_BATCH + 1
    /\ tasks[p][r].state.raw_matches = <<MATCH_BATCH + 1>>
    /\ tasks[p][r].state.final_matches = <<MATCH_BATCH + 1>>
    /\ matches = <<AgentMatch(r, MATCH_BATCH + 1)>>

IsPrefix(a, b) == Len(a) <= Len(b) /\ a = SubSeq(b, 1, Len(a))
EndsSent == {i \in 1..Len(sent) : IsWorkflowEnd(sent[i])}

\* what the observer has forwarded is the beginning of the log: nothing
\* skipped, repeated or reordered; a workflow_end is the last thing forwarded,
\* and the stream is closed exactly when one has been forwarded
C18_InOrderOnce ==
  /\ IsPrefix(sent, log)
  /\ EndsSent \subseteq {Len(sent)}
  /\ (stream.pc = "closed") <=> (EndsSent # {})

RowsOf(r, pair) == {i \in 1..Len(matches) : matches[i] = AgentMatch(r, pair)}

Persists(r) ==
  \E p \in Procs :
    /\ tasks[p][r].pc = "enter" /\ tasks[p][r].node = "persist"
    /\ tasks'[p][r].pc \in {"final", "unwind"}
    /\ tasks'[p][r].state.status = "completed"

\* C20: Match rows are only ever inserted, and only by persist with the id of
\* the Run it executes: every step leaves the rows there are as they are, in
\* place, and whatever it appends carries the run id of a Run whose persist
\* node is the step; so the rows of earlier Runs are untouched by a later Run.
C20_InsertOnly ==
  [][/\ IsPrefix(matches, matches')
     /\ \A i \in (Len(matches) + 1)..Len(matches') : Persists(matches'[i].run_id)]_vars

\* two Runs have persisted, the rows of the first still in front of those of
\* the second
C20_TwoRunsPersisted ==
  /\ Len(matches) = 2
  /\ matches[1].run_id = 1 /\ matches[2].run_id = 2
  /\ runs[1].status = "completed" /\ runs[2].status = "completed"

\* a fresh execution in which every judge call was answered and parsed and
\* the critic flagged nothing, with no cancel request, crash or failed commit
HappyPath(t) ==
  /\ ~t.resumed /\ t.state.errors = <<>>
  /\ t.state.raw_matches = t.state.candidate_pairs
  /\ Len(t.state.critiqued_matches) = Len(t.state.raw_matches)
  /\ ~t.flagged_seen
  /\ cancels = 0 /\ crashes = 0

\* C21: a fresh run in which every judge call returns well-formed output and
\* no match is flagged passes match and critique once (iteration = 1), ends
\* completed with checkpoint_state null, and persists between 0 and
\* len(candidate_pairs) Match rows.
C21_HappyPath ==
  [][\A p \in Procs, r \in RunIds :
       (Ends(p, r) /\ tasks[p][r].pc = "clear" /\ HappyPath(tasks[p][r]))
       => /\ tasks[p][r].state.iteration = 1
          /\ runs'[r].iterations = 1
          /\ runs'[r].status = "completed"
          /\ runs'[r].checkpoint_state = NULL
          /\ Len(matches) <= Len(tasks[p][r].state.candidate_pairs)]_vars

\* the step in which match_node of Run r at p returns
MatchReturns(p, r) ==
  /\ tasks[p][r].node = "match" /\ tasks[p][r].pc \in {"enter", "call"}
  /\ tasks'[p][r].state.status = "match_complete"
  /\ tasks'[p][r].pc \in {"enter", "unwind"} /\ tasks'[p][r].node \in {"critique", "match"}
  /\ tasks'[p][r].state # tasks[p][r].state

\* C26: every execution of match_node increases iteration by exactly 1, on
\* the first pass and on a loop-back, with or without candidate pairs.
C26_MatchIncrements ==
  [][\A p \in Procs, r \in RunIds :
       MatchReturns(p, r)
       => tasks'[p][r].state.iteration = tasks[p][r].state.iteration + 1]_vars

StrictlyIncreasing(s) == \A i, j \in 1..Len(s) : i < j => s[i] < s[j]

\* C27: within an execution of a run the Steps are recorded in strictly
\* increasing sequence order, across all nodes and across match/critique
\* loop iterations; no two Steps share a sequence.
C27_StepsIncreasing ==
  \A p \in Procs, r \in RunIds : StrictlyIncreasing(tasks[p][r].steps)

\* the step creates the Run r
Created(r) == runs[r].status = "absent" /\ runs'[r].status # "absent"
\* the step launches a task for Run r at p
Launched(p, r) == tasks[p][r].pc # "launched" /\ tasks'[p][r].pc = "launched"
\* start_matchmaking at p gets past _acquire_lock in this step
Acquires(p) == call[p].op # "start" /\ call'[p].op = "start"

\* C22: a start that cannot take the lock creates no Run and launches no task
\* (a Run is created only by a start that has taken the lock); a start that
\* takes the lock creates exactly one Run, in status pending, with one task
\* that moves it to running and begins the graph at its entry point from the
\* fresh initial state (iteration 0, all collections empty, status "starting").
C22_StartContract ==
  [][/\ \A p \in Procs : Acquires(p) => ~lock /\ lock'
     /\ \A r \in RunIds :
          Created(r)
          => \E p \in Procs :
               /\ call[p].op = "start" /\ call'[p] = Idle
               /\ runs'[r] = NewRun
               /\ \A q \in RunIds \ {r} : runs'[q] = runs[q]
               /\ tasks'[p][r].pc = "launched" /\ ~tasks'[p][r].resumed
               /\ \A pp \in Procs, q \in RunIds :
                    <<pp, q>> # <<p, r>> => tasks'[pp][q] = tasks[pp][q]
     /\ \A p \in Procs, r \in RunIds :
          Launched(p, r)
          => /\ call[p].op \in {"start", "resume_loop"}
             /\ call[p].op = "start" => Created(r)
     /\ \A p \in Procs, r \in RunIds :
          (tasks[p][r].pc = "launched" /\ runs[r].status = "pending"
             /\ runs[r].retry_count = 0 /\ tasks'[p][r].pc = "enter")
          => /\ runs'[r].status = "running"
             /\ tasks'[p][r].node = EntryPoint
             /\ tasks'[p][r].state.iteration = 0
             /\ tasks'[p][r].state.status = "starting"
             /\ tasks'[p][r].state.candidate_pairs = <<>>
             /\ tasks'[p][r].state.raw_matches = <<>>
             /\ tasks'[p][r].state.critiqued_matches = <<>>
             /\ tasks'[p][r].state.final_matches = <<>>
             /\ tasks'[p][r].state.errors = <<>>]_vars

\* a second Run was started after the first one's lock expired and has been
\* moved to running, while another replica's start would find the lock held
C22_StartedWhileRefusing ==
  \E p \in Procs, q \in Procs :
    /\ p # q /\ alive[q] /\ call[q].op = "idle" /\ lock
    /\ runs[2].status = "running" /\ tasks[p][2].pc = "enter"
    /\ tasks[p][2].node = EntryPoint /\ tasks[p][2].state = FreshState

\* the step starts a judge call of Run r at p
StartsCall(p, r) ==
  /\ tasks'[p][r].pc = "call"
  /\ tasks[p][r].pc # "call" \/ tasks'[p][r].batch # tasks[p][r].batch
\* the step executes a node of Run r at p that makes no judge call
RunsNode(p, r) ==
  /\ tasks[p][r].pc = "enter" /\ tasks'[p][r].pc \in {"enter", "final", "unwind"}
  /\ tasks'[p][r].state # tasks[p][r].state
\* the step is one of the task of Run r at p
TaskMoves(p, r) == Live(tasks[p][r]) /\ alive'[p] /\ tasks'[p][r] # tasks[p][r]

Executing == \E p \in Procs, r \in RunIds : alive[p] /\ Live(tasks[p][r])

\* C24: while a run's task is executing the exclusivity lock does not go away
\* through elapsed time: the TTL is refreshed during long-running nodes, so
\* the key outlives a node that lasts longer than the TTL.
C24_LockOutlivesNode ==
  [][(lock /\ Executing) => lock']_vars

\* the node that returned a state with this status
NodeOfStatus(status) ==
  CASE status = "planning_complete" -> "plan"
    [] status = "discovery_complete" -> "discover"
    [] status = "pre_filter_complete" -> "pre_filter"
    [] status = "match_complete" -> "match"
    [] status = "critique_complete" -> "critique"
    [] status = "summarize_complete" -> "summarize"
    [] status \in {"completed", "persist_failed"} -> "persist"
    [] OTHER -> "none"

\* the task of Run r at p stands between a node that has completed in this
\* execution and whatever comes next
BetweenNodes(p, r) ==
  /\ alive[p]
  /\ \/ tasks[p][r].pc = "final"
     \/ tasks[p][r].pc = "enter" /\ tasks[p][r].node # EntryPoint

Edge(from, to) ==
  \/ from = "" /\ to = "plan"
  \/ from = "plan" /\ to = "discover"
  \/ from = "discover" /\ to = "pre_filter"
  \/ from = "pre_filter" /\ to = "match"
  \/ from = "match" /\ to = "critique"
  \/ from = "critique" /\ to \in {"match", "summarize"}
  \/ from = "summarize" /\ to = "persist"
  \/ from = "persist" /\ to = ""

\* the judge call in flight is the last one of the node's batch loop
LastBatch(t) ==
  t.batch = NumBatches(Len(LoopItems(t.node, t.state)), BatchSize(t.node))

\* C28: within one execution the nodes run one at a time, in the order plan,
\* discover, pre_filter, one or more (match, critique) passes, summarize,
\* persist: a node starts only when the previous one has returned and along
\* an edge of the graph, persist only after summarize and at most once.
C28_GraphOrder ==
  [][/\ \A p \in Procs, r \in RunIds :
          LET t == tasks[p][r]
              u == tasks'[p][r]
          IN (Live(t) /\ alive'[p] /\ Live(u))
             => /\ u.node # t.node
                   => /\ Edge(t.node, u.node)
                      /\ t.pc \in {"launched", "enter", "call"}
                      /\ t.pc = "call" => LastBatch(t)
                      /\ u.pc = IF u.node = "" THEN "final" ELSE "enter"
                /\ t.pc \in {"final", "write", "clear", "unwind"}
                   => u.pc \notin {"launched", "enter", "call"}
     /\ matches' # matches
        => \E p \in Procs, r \in RunIds :
             /\ tasks[p][r].pc = "enter" /\ tasks[p][r].node = "persist"
             /\ tasks[p][r].state.status = "summarize_complete"
             /\ tasks'[p][r].pc \in {"final", "unwind"}]_vars

\* an execution has gone through two (match, critique) passes, summarize and
\* persist
C28_TwoPassesThenPersist ==
  \E p \in Procs, r \in RunIds :
    /\ tasks[p][r].pc = "final" /\ tasks[p][r].state.iteration = 2
    /\ tasks[p][r].state.status = "completed"
    /\ tasks[p][r].steps = <<1, 2, 3, 4, 50, 104, 50, 70, 80>>

\* the critic's entries for the pair k
ReviewsFor(k) == {j \in 1..Len(m_reviews) : m_reviews[j].key = k}
\* no entry for the pair k carries adjusted scores
NoAdjustedScores(k) ==
  \A j \in ReviewsFor(k) :
    \/ "adjusted_scores" \notin DOMAIN m_reviews[j]
    \/ IsNone(m_reviews[j].adjusted_scores)
SameScores(a, b) ==
  /\ a.relevance_score = b.relevance_score
  /\ a.feasibility_score = b.feasibility_score
  /\ a.impact_score = b.impact_score
  /\ a.overall_score = b.overall_score

\* C29: critique never drops a match: critiqued_matches has one entry per raw
\* match, in the same order; for a match with no critic output for its key,
\* or with no adjusted_scores, the four scores are the raw match's, critique
\* is empty, flagged and revision_needed are false.
C29_CritiqueKeepsAll ==
  m_pc \in {"critique", "summarize"}
  => LET out == m_critiqued.critiqued_matches IN
     /\ ~m_critiqued.raised
     /\ Len(out) = Len(m_raw)
     /\ \A i \in 1..Len(m_raw) :
          /\ out[i].key = m_raw[i].key
          /\ NoAdjustedScores(m_raw[i].key)
             => /\ SameScores(out[i], m_raw[i])
                /\ out[i].critique = ""
                /\ ~out[i].flagged /\ ~out[i].revision_needed

\* the summarizer returned a summary for the pair k
Summarized(k) ==
  \E j \in 1..Len(m_summaries) :
    m_summaries[j].key = k /\ "summary" \in DOMAIN m_summaries[j]

\* C30: summarize never drops a match: final_matches has one entry per
\* critiqued match; a match with overall_score below 25 ends with an empty
\* summary, and so does a match at or above 25 for which the judge returned
\* no summary.
C30_SummarizeKeepsAll ==
  m_pc = "summarize"
  => LET critiqued == m_critiqued.critiqued_matches IN
     /\ Len(m_final) = Len(critiqued)
     /\ \A i \in 1..Len(critiqued) :
          /\ m_final[i].key = critiqued[i].key
          /\ ~Worthy(critiqued[i]) => Get(m_final[i], "summary", "") = ""
          /\ (Worthy(critiqued[i]) /\ ~Summarized(critiqued[i].key))
             => Get(m_final[i], "summary", "") = ""

\* a step in which the task p runs for r absorbs a response that
\* _safe_json_parse could not read: the batch joins the dropped ones and the
\* task goes on
AbsorbsUnparsed(p, r) ==
  /\ tasks[p][r].pc = "call"
  /\ alive'[p]
  /\ Live(tasks'[p][r])
  /\ tasks'[p][r].dropped # {}
  /\ tasks'[p][r].dropped # tasks[p][r].dropped

\* C31: every failure a node absorbs without aborting the run, in particular
\* an unparseable judge response for a batch, appends an "error"-typed event
\* to the run's event log and records the Step of that batch with status
\* failed or skipped, never completed.
C31_AbsorbedFailureLogged ==
  [][\A p \in Procs, r \in RunIds :
       AbsorbsUnparsed(p, r)
       => /\ runs'[r].error_events > runs[r].error_events
          /\ Len(tasks'[p][r].steps) = Len(tasks[p][r].steps) + 1
          /\ tasks'[p][r].last_status \in {"failed", "skipped"}]_vars

\* C35: a Run's retry_count counts actual relaunches: resume_interrupted_runs
\* increments it only in a pass that goes on to relaunch that Run, so a pass
\* that cannot acquire the lock leaves retry_count unchanged.
C35_RetryCountsRelaunches ==
  [][\A r \in RunIds :
       runs'[r].retry_count # runs[r].retry_count
       => /\ runs'[r].retry_count = runs[r].retry_count + 1
          /\ \E p \in Procs : Launched(p, r)]_vars

\* the step in which resume_interrupted_runs at p launches the task of r
Relaunches(p, r) == call[p].op = "resume_loop" /\ Launched(p, r)

\* the row of r as the invocation at p read it
RowRead(p) == Head(scan[p])

\* what C33 says of launching and selecting: an invocation launches at most
\* one task (the launch ends it) and only in a step that acquires the lock;
\* a flagged Run is marked cancelled and not launched; the query selects only
\* Runs in running/pending, or failed with a checkpoint
ResumeLaunchesAndSelects ==
  /\ \A p \in Procs, r \in RunIds :
       Relaunches(p, r)
       => /\ ~lock /\ lock'
          /\ call'[p] = Idle /\ scan'[p] = <<>>
          /\ \A q \in RunIds \ {r} : ~Launched(p, q)
  /\ \A p \in Procs, r \in RunIds :
       (ProcessedNow(p, r) /\ r \in cancel_flag)
       => (runs'[r].status = "cancelled" /\ ~Launched(p, r))
  /\ \A p \in Procs :
       (call[p].op = "resume" /\ alive'[p] /\ scan'[p] # scan[p])
       => \A i \in 1..Len(scan'[p]) : Interrupted(runs[scan'[p][i].id])
  /\ \A p \in Procs, r \in RunIds :
       Relaunches(p, r) => RowRead(p).id = r

ReachesLaunch(p, r) ==
  /\ ProcessedNow(p, r)
  /\ r \notin cancel_flag
  /\ RowRead(p).retry_count < MAX_AUTO_RETRIES
  /\ ~lock

\* the row read holds a checkpoint that is not a state record
CheckpointUnusable(p) ==
  /\ RowRead(p).checkpoint_state # NULL
  /\ RowRead(p).last_completed_node # NoNode
  /\ ~Intact(RowRead(p).checkpoint_state)

\* C32: when a Run's checkpoint cannot be decoded on resume (malformed,
\* truncated, or not a state record), resume_interrupted_runs does not fail
\* the Run: it treats the Run as having no checkpoint and relaunches it from
\* plan with a fresh initial state built from the Run's input_params.
C32_UnusableCheckpointRestarts ==
  [][\A p \in Procs, r \in RunIds :
       (ReachesLaunch(p, r) /\ CheckpointUnusable(p))
       => /\ Launched(p, r)
          /\ ~tasks'[p][r].resumed
          /\ tasks'[p][r].state = FreshState
          /\ runs'[r].status = runs[r].status]_vars

\* C34: a Run's retry_count never decreases and never exceeds 10, under any
\* interleaving of resume_interrupted_runs invocations by several booting
\* processes.
C34_RetryCountBounded ==
  /\ [](\A r \in RunIds : runs[r].retry_count <= MAX_AUTO_RETRIES)
  /\ [][\A r \in RunIds : runs'[r].retry_count >= runs[r].retry_count]_vars

\* persist_node of the execution t ran to its end: the rows were committed
\* and its Step (sequence 80) recorded
PersistRan(t) == \E i \in 1..Len(t.steps) : t.steps[i] = 80

\* C40: if an execution ends with the Run in status cancelled, persist wrote
\* no Match rows for that Run in that execution; conversely a Run is marked
\* completed only if persist ran to the end without error in that execution.
C40_CancelledWroteNothing ==
  [][\A p \in Procs, r \in RunIds :
       Ends(p, r)
       => /\ runs'[r].status = "cancelled"
               => ~(PersistRan(tasks[p][r]) /\ tasks[p][r].state.final_matches # <<>>)
          /\ runs'[r].status = "completed"
               => (PersistRan(tasks[p][r]) /\ tasks[p][r].state.errors = <<>>)]_vars

\* C37: every raw match produced by the match node has overall_score equal
\* to 0.40*relevance_score + 0.35*feasibility_score + 0.25*impact_score of
\* that match, for whatever values the judge returned.
C37_OverallIsWeighted ==
  m_pc = "match" =>
    \A i \in 1..Len(m_raw) :
      100 * m_raw[i].overall_score
        = 40 * m_raw[i].relevance_score + 35 * m_raw[i].feasibility_score
          + 25 * m_raw[i].impact_score

\* the pairs of researcher rp in the list
PairsOf(rp, pairs) == {i \in 1..Len(pairs) : pairs[i].researcher_id = rp}

\* the list that pairs each researcher, in load order, with the first n
\* opportunities in load order, cut after cap pairs
FirstN(in) == Min(Max(in.top_n, 0), Len(in.opportunities))
PairedInOrder(in, pairs) ==
  /\ Len(pairs) = Min(Len(in.researchers) * FirstN(in), FALLBACK_CAP)
  /\ \A i \in 1..Len(pairs) :
       pairs[i] = CandidatePair(in.researchers[((i - 1) \div FirstN(in)) + 1],
                                in.opportunities[((i - 1) % FirstN(in)) + 1])

\* C38: when the similarity library is unavailable, pre_filter returns at
\* most 1000 candidate pairs in total and at most N (top_n) pairs per
\* researcher, pairing each researcher in load order with the first N
\* opportunities in load order, so that the same profiles always give the
\* same list of pairs.
C38_FallbackPairs ==
  pf_pc = "returned" =>
    /\ Len(pf_out) <= FALLBACK_CAP
    /\ \A i \in 1..Len(pf_in.researchers) :
         Cardinality(PairsOf(pf_in.researchers[i], pf_out)) <= Max(pf_in.top_n, 0)
    /\ PairedInOrder(pf_in, pf_out)

\* C39: a run's event log contains at most one workflow_end event and it is
\* the last event appended for that run, also when a failed Run is later
\* resumed by resume_interrupted_runs; so an observer tailing the log, whom
\* the stream leaves at the first workflow_end, misses nothing.
C39_EndIsLast ==
  \A r \in RunIds : runs[r].end_events <= 1 /\ runs[r].late_events = 0

\* the status an execution that was not cancelled ends its Run with
StatusOf(t) == IF t.state.errors # <<>> THEN "failed" ELSE "completed"

\* the execution of r at p leaves the graph through "Determine final status"
Concludes(p, r) == tasks[p][r].pc = "clear" /\ tasks'[p][r].pc = "none" /\ alive'[p]

\* C36: with the coordination store unavailable every store operation
\* degrades without raising (_acquire_lock returns true, _is_cancelled
\* returns false, _emit_log does nothing: no lock, no flag and no event is
\* ever stored), and a run that has started still reaches a terminal status,
\* with the Run status, the Step of persist and the Match rows that the graph
\* gives with the store available: completed with the Step of persist and a
\* row per final match, failed after a persist error, cancelled only on a
\* cancel request made to its own worker.
C36_OutageDegrades ==
  /\ [](/\ _acquire_lock
        /\ \A r \in RunIds : ~_is_cancelled(r)
        /\ ~lock /\ cancel_flag = {}
        /\ \A r \in RunIds : /\ runs[r].error_events = 0
                             /\ runs[r].end_events = 0
                             /\ runs[r].late_events = 0)
  /\ [][\A p \in Procs, r \in RunIds :
          /\ Concludes(p, r)
               => /\ runs'[r].status = IF r \in cancel_requested[p] THEN "cancelled"
                                       ELSE StatusOf(tasks[p][r])
                  /\ runs'[r].status = "completed"
                       => /\ PersistRan(tasks[p][r])
                          /\ \A i \in 1..Len(tasks[p][r].state.final_matches) :
                               RowsOf(r, tasks[p][r].state.final_matches[i]) # {}
          /\ (Ends(p, r) /\ runs'[r].status = "cancelled")
               => r \in cancel_requested[p]]_vars
  /\ \A r \in RunIds :
       (runs[r].status = "running") ~> (runs[r].status \in Terminal)

\* two runs are inside the graph at once, and one has completed with its
\* Match rows written
C36_TwoRunsNoLock ==
  /\ ~store_up
  /\ \E r \in RunIds : runs[r].status = "completed" /\ RowsOf(r, 1) # {}
  /\ \E p \in Procs, r \in RunIds : tasks[p][r].pc = "call" /\ tasks[p][r].node = "match"

====
